---------------------------- MODULE Spec2Model ----------------------------
(***************************************************************************)
(* A model of the galaxy-webgpu simulation core: the Observer (publish /   *)
(* subscribe bus), the packed model-matrix buffer of render.ts, the        *)
(* collision engine of collision.ts with the compute kernel of             *)
(* scattered-points.wgsl, and the frame loop that drives them.             *)
(*                                                                         *)
(* Each component has its own specification (SpecObserver, SpecRender,     *)
(* SpecParse, SpecKernel, SpecFrame); the variables a specification does   *)
(* not use keep their initial value.                                       *)
(*                                                                         *)
(* Floating point values are modelled by integers: coordinates and radii   *)
(* are small integers, and a matrix element is an integer token.           *)
(***************************************************************************)
EXTENDS Integers, Sequences, FiniteSets, TLC

VARIABLES
  \* ---- observer.ts
  subscriptions,      \* Map<Topic, Subscriber[]>: a function on the keys set so far
  delivered,          \* the callback invocations made by the last Observer call, in order
  lastCall,           \* the last Observer call: [op, topic, id, callback, value]
  members,            \* history: per topic, the ids effectively subscribed
  subBefore,          \* history: per topic, <<x, y>> when x subscribed before y
  registered,         \* history: per topic, the callback each id subscribed with
  \* ---- render.ts
  alignment,          \* device.limits.minUniformBufferOffsetAlignment
  modelMatrixUniformBufferSize,  \* bytes of one slot of the packed buffer
  planetsCount,       \* the body count render.ts draws
  allModelMatrices,   \* Float32Array: element k of the code is allModelMatrices[k + 1]
  modelMatrixUniformBuffer,      \* the GPUBuffer of the last pack: [size, data]
  planetsBuffers,     \* PlanetInfo[]: the body list (radius of each body)
  renderCall,         \* the last renderPlanets call: what it wrote, drew and raised
  scenarioStage,      \* history: how far the renders have followed 5 -> 3 -> 5
  \* ---- collision.ts: parseResultsBuffer on its own
  arrayBuffer,        \* the ArrayBuffer handed to parseResultsBuffer, as bytes
  inputRecords,       \* history: the (a, b) words the bytes were encoded from
  \* ---- collision.ts and the device it drives
  gpuBuffers,         \* every GPUBuffer created so far; a buffer is its index here
  closure,            \* the let variables of Collisions(): the current buffers and bind group
  deviceQueue,        \* the queue timeline: submissions and map requests, oldest first
  jsErrors,           \* exceptions and promise rejections raised in script
  deviceErrors,       \* validation errors raised by the device
  notified,           \* the lists published on "collisions", oldest first
  tested,             \* history: the pairs check_collision was applied to in the last check
  checksStarted,      \* calls of checkCollisionViaComputeShader so far
  recreates,          \* calls of recreateComputeShaderBuffers so far
  \* ---- the frame loop and the UI callback
  uiSettings,         \* [planets, checkCollisions, tail]
  currentFrame,
  currentPlanetsForComputeShader,
  planetsCenterPointsAndRadius,  \* the vec4 list last computed by frame()
  rafScheduled,       \* requestAnimationFrame(frame) is outstanding
  countEpoch,         \* history: how many times the body count has changed
  uiChanges,          \* UI events so far
  \* ---- createSphereMesh (utils.ts)
  meshCall,           \* the last call: its arguments, and what it returned or threw
  \* ---- Tail (tail.ts)
  coordinatesPerPlanet,
  tailCenterPositionsComplete,   \* every sample taken since the last reset
  tailCenterPositions,           \* the samples reordered by body index
  tailVertexBuffer,              \* the vertex buffer built from tailCenterPositions
  tailDraw,           \* the last renderPass.draw of renderTail
  tailLog,            \* history: the tail operations since the last reset
  \* ---- CreatePlanets (create)
  createCall,         \* the last call of create: its arguments and the list length before
  createPending,      \* the slider has moved and no bodies were created for its count since
  \* ---- the camera (pointer events and the view-projection matrix)
  pointerEvents,      \* PointerEventsTransformations written by the pointer callback
  currentCameraConfigurations,   \* the copy frame() compares pointerEvents with
  viewProjectionOf,   \* the camera values the view-projection matrix was computed from
  cameraCall,         \* the last hasCameraChangedPositions call of frame()
  pointerCount,       \* pointer and wheel events so far
  \* ---- history of the frames between collision checks
  framesSinceCheck,   \* calls of frame() since the one that made the last check, it included; -1: not counted
  lastCheckGap        \* framesSinceCheck when the last check was called; -1 before the second

obsVars == <<subscriptions, delivered, lastCall, members, subBefore, registered>>

renderVars == <<alignment, modelMatrixUniformBufferSize, planetsCount, allModelMatrices,
                modelMatrixUniformBuffer, planetsBuffers, renderCall, scenarioStage>>

parseVars == <<arrayBuffer, inputRecords>>

engineVars == <<gpuBuffers, closure, deviceQueue, jsErrors, deviceErrors, notified,
                tested, checksStarted, recreates>>

frameVars == <<uiSettings, currentFrame, currentPlanetsForComputeShader,
               planetsCenterPointsAndRadius, rafScheduled, countEpoch, uiChanges>>

meshVars == <<meshCall>>

tailVars == <<coordinatesPerPlanet, tailCenterPositionsComplete, tailCenterPositions,
              tailVertexBuffer, tailDraw, tailLog>>

spawnVars == <<createCall, createPending>>

cameraVars == <<pointerEvents, currentCameraConfigurations, viewProjectionOf,
                cameraCall, pointerCount>>

gateVars == <<framesSinceCheck, lastCheckGap>>

vars == <<obsVars, renderVars, parseVars, engineVars, frameVars,
          meshVars, tailVars, spawnVars, cameraVars, gateVars>>

(***************************************************************************)
(* Generic helpers                                                         *)
(***************************************************************************)
Range(s) == {s[i] : i \in 1..Len(s)}

SelectSeqBy(s, Test(_)) == SelectSeq(s, Test)

(***************************************************************************)
(* observer.ts                                                             *)
(***************************************************************************)
Topics == {"planets", "collisions"}
SubscriberIds == {"render.ts", "a", "b"}
Callbacks == {"setPlanetsCount", "cb1"}
NotifyValues == {1, 2}

NoCall == [op |-> "none", topic |-> "none", id |-> "none", callback |-> "none", value |-> 0]

\* subscriptions.get(topic) ?? []
SubscribersOf(subs, topic) == IF topic \in DOMAIN subs THEN subs[topic] ELSE <<>>

\* subscriptions.set(topic, array)
MapSet(subs, topic, array) ==
  [t \in (DOMAIN subs) \cup {topic} |-> IF t = topic THEN array ELSE subs[t]]

\* currentSubscribers.find((item) => item.id === subscriber.id) is truthy
FindById(array, id) == \E i \in 1..Len(array) : array[i].id = id

\* A subscribe that pushes without looking for the id first.
subscribeNoFind(subs, topic, subscriber) ==
  MapSet(subs, topic, Append(SubscribersOf(subs, topic), subscriber))

subscribe(subs, topic, subscriber) ==
  LET currentSubscribers == SubscribersOf(subs, topic) IN
  IF FindById(currentSubscribers, subscriber.id)
    THEN subs
    ELSE MapSet(subs, topic, Append(currentSubscribers, subscriber))

unsubscribe(subs, topic, subscriber) ==
  LET currentSubscribers == SubscribersOf(subs, topic)
      Keep(item) == item.id # subscriber.id
  IN  MapSet(subs, topic, SelectSeq(currentSubscribers, Keep))

\* A notify that walks the subscribers from the last to the first.
notifyReversed(subs, topic, value) ==
  LET currentSubscribers == SubscribersOf(subs, topic)
      n == Len(currentSubscribers)
  IN  [i \in 1..n |->
        [id |-> currentSubscribers[n + 1 - i].id,
         callback |-> currentSubscribers[n + 1 - i].callback,
         value |-> value]]

\* The callback invocations notify makes: forEach over the topic's array.
notify(subs, topic, value) ==
  LET currentSubscribers == SubscribersOf(subs, topic) IN
  [i \in 1..Len(currentSubscribers) |->
    [id |-> currentSubscribers[i].id,
     callback |-> currentSubscribers[i].callback,
     value |-> value]]

EmptySubscriptions == [t \in {} |-> <<>>]

InitObserver ==
  /\ subscriptions = EmptySubscriptions
  /\ delivered = <<>>
  /\ lastCall = NoCall
  /\ members = [t \in Topics |-> {}]
  /\ subBefore = [t \in Topics |-> {}]
  /\ registered = [t \in Topics |-> [i \in {} |-> "none"]]

Subscribe(topic, id, callback) ==
  /\ subscriptions' = subscribe(subscriptions, topic, [id |-> id, callback |-> callback])
  /\ lastCall' = [op |-> "subscribe", topic |-> topic, id |-> id,
                  callback |-> callback, value |-> 0]
  /\ delivered' = <<>>
  /\ IF id \in members[topic]
       THEN UNCHANGED <<members, subBefore, registered>>
       ELSE /\ members' = [members EXCEPT ![topic] = @ \cup {id}]
            /\ subBefore' = [subBefore EXCEPT
                 ![topic] = @ \cup {<<x, id>> : x \in members[topic]}]
            /\ registered' = [registered EXCEPT
                 ![topic] = [i \in (DOMAIN @) \cup {id} |->
                               IF i = id THEN callback ELSE @[i]]]
  /\ UNCHANGED <<renderVars, parseVars, engineVars, frameVars, meshVars, tailVars, spawnVars, cameraVars, gateVars>>

Unsubscribe(topic, id, callback) ==
  /\ subscriptions' = unsubscribe(subscriptions, topic, [id |-> id, callback |-> callback])
  /\ lastCall' = [op |-> "unsubscribe", topic |-> topic, id |-> id,
                  callback |-> callback, value |-> 0]
  /\ members' = [members EXCEPT ![topic] = @ \ {id}]
  /\ subBefore' = [subBefore EXCEPT
       ![topic] = {p \in @ : p[1] # id /\ p[2] # id}]
  /\ registered' = [registered EXCEPT
       ![topic] = [i \in (DOMAIN @) \ {id} |-> @[i]]]
  /\ delivered' = <<>>
  /\ UNCHANGED <<renderVars, parseVars, engineVars, frameVars, meshVars, tailVars, spawnVars, cameraVars, gateVars>>

Notify(topic, value) ==
  /\ delivered' = notify(subscriptions, topic, value)
  /\ lastCall' = [op |-> "notify", topic |-> topic, id |-> "none",
                  callback |-> "none", value |-> value]
  /\ UNCHANGED <<subscriptions, members, subBefore, registered>>
  /\ UNCHANGED <<renderVars, parseVars, engineVars, frameVars, meshVars, tailVars, spawnVars, cameraVars, gateVars>>

NextObserver ==
  \/ \E topic \in Topics, id \in SubscriberIds, callback \in Callbacks :
       Subscribe(topic, id, callback)
  \/ \E topic \in Topics, id \in SubscriberIds, callback \in Callbacks :
       Unsubscribe(topic, id, callback)
  \/ \E topic \in Topics, value \in NotifyValues : Notify(topic, value)

(***************************************************************************)
(* render.ts: the packed model-matrix buffer and renderPlanets             *)
(***************************************************************************)
MaxPlanets == 5
MAT4X4_BYTE_LENGTH == 64
BYTES_PER_ELEMENT == 4
Alignments == {32, 64, 128, 256}
Times == {1, 2}
Radii == {1, 2}

\* Math.ceil(size / alignment)
CeilDiv(size, a) == IF size % a = 0 THEN size \div a ELSE (size \div a) + 1

\* A roundUp that forgets to align.
roundUpNoAlign(size, a) == size

roundUp(size, a) == CeilDiv(size, a) * a

(* The world-space centre a model matrix gives body i at time t.  The code  *)
(* derives it from the ellipse angle, the running sum of the translations   *)
(* and the clock; here the clock t picks one of two layouts: at time 1 the  *)
(* bodies are 3 apart along (2, 1, 2), at time 2 they all sit at the        *)
(* origin.                                                                 *)
Centre(t, i) == IF t = 1 THEN <<2 * i, i, 2 * i>> ELSE <<0, 0, 0>>

\* Element k (0..15, column major) of body i's model matrix at time t: the
\* translation column holds the centre, the rest is a token of (t, i, k).
Elem(t, i, k) ==
  CASE k = 12 -> Centre(t, i)[1]
    [] k = 13 -> Centre(t, i)[2]
    [] k = 14 -> Centre(t, i)[3]
    [] k = 15 -> 1
    [] OTHER -> 1000 * t + 16 * i + k + 1

ModelMatrix(t, i) == [k \in 1..16 |-> Elem(t, i, k - 1)]

Zeros(len) == [k \in 1..len |-> 0]

\* An allocation that keeps the old array when it is long enough.
ReusedFloat32Array(old, len) == IF Len(old) >= len THEN old ELSE Zeros(len)

\* new Float32Array(len): a zero-filled array; the old one is dropped.
NewFloat32Array(old, len) == Zeros(len)

\* TypedArray.prototype.set(values, offset) raises RangeError when the
\* values do not fit.
SetFits(array, values, offset) == offset + Len(values) <= Len(array)

Float32ArraySet(array, values, offset) ==
  [k \in 1..Len(array) |->
    IF k - 1 >= offset /\ k - 1 < offset + Len(values)
      THEN values[k - offset] ELSE array[k]]

\* A slot offset given in bytes where elements are meant.
SlotElementOffsetInBytes(i, size) == i * size

\* i * (modelMatrixUniformBufferSize / Float32Array.BYTES_PER_ELEMENT)
SlotElementOffset(i, size) == i * (size \div BYTES_PER_ELEMENT)

\* The loop of setModelMatrixUniformBuffer from body i on: [array, offsets,
\* error], offsets being the element offsets passed to set.
RECURSIVE PackFrom(_, _, _, _, _, _)
PackFrom(array, offsets, i, n, size, t) ==
  IF i >= n THEN [array |-> array, offsets |-> offsets, error |-> "none"]
  ELSE LET offset == SlotElementOffset(i, size)
           matrix == ModelMatrix(t, i)
       IN  IF ~SetFits(array, matrix, offset)
             THEN [array |-> array, offsets |-> offsets, error |-> "RangeError"]
             ELSE PackFrom(Float32ArraySet(array, matrix, offset),
                           Append(offsets, offset), i + 1, n, size, t)

\* setModelMatrixUniformBuffer for n bodies at time t: the new array, the
\* offsets written and the GPUBuffer created from the array.
setModelMatrixUniformBuffer(old, n, size, t) ==
  LET fresh == NewFloat32Array(old, (size * n) \div BYTES_PER_ELEMENT)
      packed == PackFrom(fresh, <<>>, 0, n, size, t)
  IN  [array |-> packed.array,
       offsets |-> packed.offsets,
       error |-> packed.error,
       buffer |-> [size |-> size * n, data |-> packed.array]]

\* The draw loop of renderPlanets from body i on: the draws issued until the
\* loop ends or planetsBuffers[i] is undefined (a TypeError).
RECURSIVE DrawFrom(_, _, _, _, _, _)
DrawFrom(draws, i, n, size, bodies, enableArmor) ==
  IF i >= n THEN [draws |-> draws, error |-> "none"]
  ELSE IF i + 1 > Len(bodies) THEN [draws |-> draws, error |-> "TypeError"]
  ELSE DrawFrom(
         draws \o <<[body |-> i, dynamicOffset |-> i * size, pipeline |-> "topology"]>>
               \o (IF enableArmor
                     THEN <<[body |-> i, dynamicOffset |-> i * size, pipeline |-> "armor"]>>
                     ELSE <<>>),
         i + 1, n, size, bodies, enableArmor)

\* setBindGroup(0, bindGroup, [dynamicOffset]) is valid when the offset is a
\* multiple of the device alignment and the bound range lies in the buffer.
DynamicOffsetValid(draw, buffer, size, a) ==
  /\ draw.dynamicOffset % a = 0
  /\ draw.dynamicOffset + size <= buffer.size

NoRenderCall ==
  [called |-> FALSE, time |-> 0, count |-> 0, enableArmor |-> FALSE,
   offsets |-> <<>>, draws |-> <<>>,
   error |-> "none", validationError |-> FALSE]

ScenarioCounts == <<5, 3, 5>>

\* The stage of 5 -> 3 -> 5 reached by a render with count n from stage st.
NextStage(st, n) ==
  IF st < 3 /\ n = ScenarioCounts[st + 1] THEN st + 1
  ELSE IF st > 0 /\ n = ScenarioCounts[st] THEN st
  ELSE IF st = 3 /\ n = ScenarioCounts[2] THEN 2
  ELSE IF n = ScenarioCounts[1] THEN 1
  ELSE 0

\* createPlanets(numberOfPlanets): the list is rebuilt with one body per
\* index, each with its own random radius.
createPlanets(radii) == [i \in 1..Len(radii) |-> [radius |-> radii[i]]]

\* The values no render has touched.
InitRenderIdle ==
  /\ alignment = 256
  /\ modelMatrixUniformBufferSize = roundUp(MAT4X4_BYTE_LENGTH, 256)
  /\ planetsCount = 0
  /\ allModelMatrices = <<>>
  /\ modelMatrixUniformBuffer = [size |-> 0, data |-> <<>>]
  /\ planetsBuffers = <<>>
  /\ renderCall = NoRenderCall
  /\ scenarioStage = 0

\* Render({device, numberOfPlanets}) after createPlanets(numberOfPlanets).
InitRenderSubscribed ==
  /\ alignment \in Alignments
  /\ modelMatrixUniformBufferSize = roundUp(MAT4X4_BYTE_LENGTH, alignment)
  /\ planetsCount \in 1..MaxPlanets
  /\ allModelMatrices =
       Zeros((modelMatrixUniformBufferSize * planetsCount) \div BYTES_PER_ELEMENT)
  /\ modelMatrixUniformBuffer = [size |-> 0, data |-> <<>>]
  /\ planetsBuffers = createPlanets([i \in 1..planetsCount |-> 1])
  /\ renderCall = NoRenderCall
  /\ scenarioStage = 0
  /\ subscriptions = subscribe(EmptySubscriptions, "planets",
                               [id |-> "render.ts", callback |-> "setPlanetsCount"])
  /\ delivered = <<>>
  /\ lastCall = NoCall
  /\ members = [t \in Topics |-> IF t = "planets" THEN {"render.ts"} ELSE {}]
  /\ subBefore = [t \in Topics |-> {}]
  /\ registered = [t \in Topics |->
       IF t = "planets" THEN [i \in {"render.ts"} |-> "setPlanetsCount"]
                        ELSE [i \in {} |-> "none"]]

\* The planets slider changed to n: the change is notified on "planets" and
\* render.ts's callback stores the new count. The body list stays as it is.
PlanetsChanged(n) ==
  /\ delivered' = notify(subscriptions, "planets", n)
  /\ lastCall' = [op |-> "notify", topic |-> "planets", id |-> "none",
                  callback |-> "none", value |-> n]
  /\ planetsCount' =
       IF \E i \in 1..Len(delivered') : delivered'[i].callback = "setPlanetsCount"
         THEN n ELSE planetsCount
  /\ UNCHANGED <<subscriptions, members, subBefore, registered>>
  /\ UNCHANGED <<alignment, modelMatrixUniformBufferSize, allModelMatrices,
                 modelMatrixUniformBuffer, planetsBuffers, renderCall, scenarioStage>>
  /\ UNCHANGED <<parseVars, engineVars, frameVars, meshVars, tailVars, spawnVars, cameraVars, gateVars>>

\* What one renderPlanets call wrote, drew and raised.
RenderCall(packed, drawn, t, n, size, a, enableArmor) ==
  [called |-> TRUE, time |-> t, count |-> n, enableArmor |-> enableArmor,
   offsets |-> packed.offsets,
   draws |-> IF packed.error = "none" THEN drawn.draws ELSE <<>>,
   error |-> IF packed.error # "none" THEN packed.error ELSE drawn.error,
   validationError |->
     /\ packed.error = "none"
     /\ \E d \in 1..Len(drawn.draws) :
          ~DynamicOffsetValid(drawn.draws[d], packed.buffer, size, a)]

\* renderPlanets({enableArmor, planetsBuffers, ...}) at time t.
RenderPlanets(t, enableArmor) ==
  /\ \E packed \in {setModelMatrixUniformBuffer(allModelMatrices, planetsCount,
                                                 modelMatrixUniformBufferSize, t)} :
       \E drawn \in {DrawFrom(<<>>, 0, planetsCount, modelMatrixUniformBufferSize,
                              planetsBuffers, enableArmor)} :
         /\ allModelMatrices' = packed.array
         /\ modelMatrixUniformBuffer' =
              IF packed.error = "none" THEN packed.buffer
              ELSE modelMatrixUniformBuffer
         /\ renderCall' = RenderCall(packed, drawn, t, planetsCount,
                                     modelMatrixUniformBufferSize, alignment,
                                     enableArmor)
  /\ scenarioStage' = NextStage(scenarioStage, planetsCount)
  /\ UNCHANGED <<alignment, modelMatrixUniformBufferSize, planetsCount, planetsBuffers>>
  /\ UNCHANGED <<obsVars, parseVars, engineVars, frameVars, meshVars, tailVars, spawnVars, cameraVars, gateVars>>

(***************************************************************************)
(* getPlanetsCenterPointAndRadius: reading the packed matrices back        *)
(***************************************************************************)
NaN == 0 - 999999

Min(a, b) == IF a < b THEN a ELSE b

\* Float32Array.prototype.subarray(begin, end), both clamped to the length.
Subarray(array, begin, end) ==
  LET b == Min(begin, Len(array))
      e == Min(end, Len(array))
  IN  [k \in 1..(IF e > b THEN e - b ELSE 0) |-> array[b + k]]

\* A read that takes the byte offset for an element offset.
ReadModelMatrixAtByteOffset(array, i, size) ==
  Subarray(array, i * size, i * size + MAT4X4_BYTE_LENGTH)

\* allModelMatrices.subarray(dynamicOffset / 4, dynamicOffset / 4 + MAT4X4_BYTE_LENGTH)
ReadModelMatrix(array, i, size) ==
  LET dynamicOffset == i * size
  IN  Subarray(array, dynamicOffset \div 4, (dynamicOffset \div 4) + MAT4X4_BYTE_LENGTH)

\* Element k (0..15) of a matrix read back; undefined elements compute to NaN.
At(m, k) == IF k + 1 <= Len(m) THEN m[k + 1] ELSE NaN

\* vec4.transformMat4(out, a, m): out[r] = m[r]x + m[4+r]y + m[8+r]z + m[12+r]w
transformMat4(a, m) ==
  IF Len(m) < 16 THEN <<NaN, NaN, NaN, NaN>>
  ELSE [r \in 1..4 |->
         At(m, r - 1) * a[1] + At(m, 4 + r - 1) * a[2]
           + At(m, 8 + r - 1) * a[3] + At(m, 12 + r - 1) * a[4]]

PLANET_INITIAL_CENTER == <<0, 0, 0, 1>>

\* The record pushed for body i; planetsBuffers[i] undefined is a TypeError.
CenterPointAndRadius(array, i, size, bodies) ==
  LET c == transformMat4(PLANET_INITIAL_CENTER, ReadModelMatrix(array, i, size))
  IN  [x |-> c[1], y |-> c[2], z |-> c[3],
       radius |-> bodies[i + 1].radius, planetIdx |-> i]

getPlanetsCenterPointAndRadius(n, bodies, size, array) ==
  IF n > Len(bodies) THEN [error |-> "TypeError", points |-> <<>>]
  ELSE [error |-> "none",
        points |-> [j \in 1..n |-> CenterPointAndRadius(array, j - 1, size, bodies)]]

NextRender ==
  \/ \E n \in 1..MaxPlanets : PlanetsChanged(n)
  \/ \E t \in Times, enableArmor \in BOOLEAN : RenderPlanets(t, enableArmor)

(***************************************************************************)
(* collision.ts: parseResultsBuffer                                        *)
(***************************************************************************)
MaxRecords == 2
WordValues == {0, 1, 256, 16777217}
HeaderValues == {0, 3}

\* The four bytes of a u32 as the GPU stores them (little-endian).
U32Bytes(v) ==
  <<v % 256, (v \div 256) % 256, (v \div 65536) % 256, (v \div 16777216) % 256>>

\* A slice that keeps the count header.
ArrayBufferSliceNone(bytes, begin) == bytes

\* ArrayBuffer.prototype.slice(begin)
ArrayBufferSlice(bytes, begin) ==
  IF begin >= Len(bytes) THEN <<>> ELSE SubSeq(bytes, begin + 1, Len(bytes))

\* DataView.prototype.getUint32(byteOffset, true)
getUint32(view, byteOffset) ==
  view[byteOffset + 1] + 256 * view[byteOffset + 2]
    + 65536 * view[byteOffset + 3] + 16777216 * view[byteOffset + 4]

structSize == 2 * 4

\* The for loop of parseResultsBuffer, from record i on.
RECURSIVE ParseFrom(_, _, _)
ParseFrom(view, i, collisions) ==
  IF i >= Len(view) \div structSize THEN collisions
  ELSE LET baseOffset == i * structSize
           a == getUint32(view, baseOffset)
           b == getUint32(view, baseOffset + 4)
       IN  ParseFrom(view, i + 1,
                     IF a # b THEN Append(collisions, [a |-> a, b |-> b])
                              ELSE collisions)

\* parseResultsBuffer({arrayBuffer}): the list it notifies on "collisions".
parseResultsBuffer(buffer) == ParseFrom(ArrayBufferSlice(buffer, 4), 0, <<>>)

\* The tag of a collision check: its number, the numberOfPlanets it was
\* called with and the body-count epoch it was called in.
NoTag == [id |-> 0, n |-> 0, epoch |-> 0, points |-> <<>>]

\* One publication on "collisions": the list, the check whose dispatch filled
\* the buffer that was read, the check whose continuation read it, and the
\* body-count epoch at the time of the publication.
Publication(collisions, from, by, epoch) ==
  [collisions |-> collisions, from |-> from, by |-> by, epoch |-> epoch]

\* The bytes of a sequence of (a, b) records.
RECURSIVE EncodeRecords(_)
EncodeRecords(records) ==
  IF records = <<>> THEN <<>>
  ELSE U32Bytes(Head(records)[1]) \o U32Bytes(Head(records)[2])
         \o EncodeRecords(Tail(records))

InitParseIdle ==
  /\ arrayBuffer = <<>>
  /\ inputRecords = [header |-> 0, records |-> <<>>]

\* A mapped results buffer of 4 + 8 * m bytes.
InitParseBuffer ==
  \E header \in HeaderValues, m \in 0..MaxRecords :
    \E records \in [1..m -> WordValues \X WordValues] :
      /\ arrayBuffer = U32Bytes(header) \o EncodeRecords(records)
      /\ inputRecords = [header |-> header, records |-> records]

\* parseResultsBuffer({arrayBuffer}), called once on the buffer.
ParseResultsBuffer ==
  /\ notified = <<>>
  /\ LET collisions == parseResultsBuffer(arrayBuffer)
     IN  /\ notified' = Append(notified, Publication(collisions, NoTag, NoTag, 0))
         /\ delivered' = notify(subscriptions, "collisions", collisions)
         /\ lastCall' = [op |-> "notify", topic |-> "collisions", id |-> "none",
                         callback |-> "none", value |-> collisions]
  /\ UNCHANGED <<subscriptions, members, subBefore, registered>>
  /\ UNCHANGED <<gpuBuffers, closure, deviceQueue, jsErrors, deviceErrors,
                 tested, checksStarted, recreates>>
  /\ UNCHANGED <<renderVars, parseVars, frameVars, meshVars, tailVars, spawnVars, cameraVars, gateVars>>

(***************************************************************************)
(* scattered-points.wgsl: the collision kernel                             *)
(***************************************************************************)
WORKGROUP_SIZE == 64
MaxBodies == 4
MaxRecreates == 1
MaxChecks == 1

\* Candidate bodies <<x, y, z, r>>: the first two touch exactly, the first
\* and the third miss by one unit of squared distance.
BodyPool == { <<0, 0, 0, 1>>, <<2, 1, 2, 2>>, <<3, 1, 0, 2>> }

\* The body lists a check is run on: every list of up to MaxFreeBodies
\* bodies of the pool, and four longer ones with 6, 5, 4 and 2 overlapping
\* pairs (more than, as many as and fewer than the records of the array).
MaxFreeBodies == 3
CrowdedBodies ==
  { << <<0, 0, 0, 1>>, <<0, 0, 0, 1>>, <<0, 0, 0, 1>>, <<0, 0, 0, 1>> >>,
    << <<0, 0, 0, 1>>, <<2, 1, 2, 2>>, <<2, 1, 2, 2>>, <<3, 1, 0, 2>> >>,
    << <<0, 0, 0, 1>>, <<2, 1, 2, 2>>, <<3, 1, 0, 2>>, <<3, 1, 0, 2>> >>,
    << <<0, 0, 0, 1>>, <<0, 0, 0, 1>>, <<3, 1, 0, 2>>, <<3, 1, 0, 2>> >> }
KernelPoints(numberOfPlanets) ==
  IF numberOfPlanets <= MaxFreeBodies THEN [1..numberOfPlanets -> BodyPool]
  ELSE {points \in CrowdedBodies : Len(points) = numberOfPlanets}

\* An overlap test that leaves out touching spheres.
check_collisionStrict(a, b) ==
  LET dx == b[1] - a[1]
      dy == b[2] - a[2]
      dz == b[3] - a[3]
      sumOfRadius == a[4] + b[4]
  IN  dx * dx + dy * dy + dz * dz < sumOfRadius * sumOfRadius

\* fn check_collision(a: CenterAndRadius, b: CenterAndRadius) -> bool
check_collision(a, b) ==
  LET radiusA == a[4]
      radiusB == b[4]
      dx == b[1] - a[1]
      dy == b[2] - a[2]
      dz == b[3] - a[3]
      distanceCAandCBSquared == dx * dx + dy * dy + dz * dz
      sumOfRadius == radiusA + radiusB
  IN  distanceCAandCBSquared <= sumOfRadius * sumOfRadius

\* A collisions buffer with twice the record space.
CollisionsBufferSizeDouble(numberOfPlanets) == numberOfPlanets * 4 * 2 * 2 + 4

\* size of planetsCenterPointAndRadiusBuffer and of collisionsBuffer
InputBufferSize(numberOfPlanets) == numberOfPlanets * BYTES_PER_ELEMENT * 4
CollisionsBufferSize(numberOfPlanets) == numberOfPlanets * 4 * 2 + 4

\* device.createBuffer({size, usage}): zero-filled and unmapped. An input
\* buffer holds vec4 points, the other two hold bytes.
NewBuffer(usage, size) ==
  [usage |-> usage, size |-> size, mapState |-> "unmapped",
   bytes |-> IF usage = "input" THEN <<>> ELSE Zeros(size),
   points |-> <<>>, filledBy |-> NoTag]

\* arrayLength(&planetsCenterPointInWorldSpaceAndRadius) and the number of
\* elements of collisions.data (a runtime-sized array after the 4-byte count).
InputArrayLength(buffer) == buffer.size \div 16
DataArrayLength(buffer) == (buffer.size - 4) \div structSize

\* planetsCenterPointInWorldSpaceAndRadius[i]; bytes never written are zero.
PointAt(buffer, i) ==
  IF i < Len(buffer.points) THEN buffer.points[i + 1] ELSE <<0, 0, 0, 0>>

\* A 4-byte store at a byte offset.
StoreU32(bytes, offset, v) ==
  [k \in 1..Len(bytes) |->
     IF k > offset /\ k <= offset + 4 THEN U32Bytes(v)[k - offset] ELSE bytes[k]]

\* A read-modify-write whose write is lost.
atomicAddLost(bytes, offset, v) ==
  [prior |-> getUint32(bytes, offset), bytes |-> bytes]

\* atomicAdd(&collisions.count, v): the prior value, and the bytes with the
\* sum stored, in one indivisible step.
atomicAdd(bytes, offset, v) ==
  [prior |-> getUint32(bytes, offset),
   bytes |-> StoreU32(bytes, offset, getUint32(bytes, offset) + v)]

\* A submission without the clear.
clearBufferSkipped(bytes) == bytes

\* computeShaderCommandEncoder.clearBuffer(collisionsBuffer)
clearBuffer(bytes) == Zeros(Len(bytes))

\* The byte offsets in the collisions buffer at which the store
\* collisions.data[index] = pair may land. In bounds it is the offset of
\* record index, after the 4-byte count. Out of bounds the store is either
\* not performed (the offset of the end of the buffer stands for that) or
\* lands at any word of the buffer: on the count, on a record, across two
\* records, or cut off at the end of the buffer.
StoreTargets(index, capacity) ==
  IF index < capacity THEN {4 + index * structSize}
  ELSE {4 * w : w \in 0..(2 * capacity + 1)}

\* An invocation that has no store of a pair under way.
NoStore == [word |-> 0 - 1, target |-> 0 - 1]

(***************************************************************************)
(* collision.ts: the buffers and one collision check                       *)
(***************************************************************************)
NoClosure ==
  [planetsCenterPointAndRadiusBuffer |-> 0, collisionsBuffer |-> 0,
   resultsBuffer |-> 0, computeShaderBindGroup |-> [input |-> 0, collisions |-> 0],
   numberOfPlanets |-> 0]

\* recreateComputeShaderBuffers({numberOfPlanets, planetsCenterPointsAndRadius})
recreateComputeShaderBuffers(buffers, numberOfPlanets, points) ==
  LET input == Len(buffers) + 1
      collisions == Len(buffers) + 2
      results == Len(buffers) + 3
      collisionsBuffer == NewBuffer("collisions", CollisionsBufferSize(numberOfPlanets))
      inputBuffer == NewBuffer("input", InputBufferSize(numberOfPlanets))
      fits == Len(points) * 16 <= inputBuffer.size
  IN  [gpuBuffers |->
         buffers \o << IF fits THEN [inputBuffer EXCEPT !.points = points]
                               ELSE inputBuffer,
                       collisionsBuffer,
                       NewBuffer("results", collisionsBuffer.size) >>,
       closure |->
         [planetsCenterPointAndRadiusBuffer |-> input,
          collisionsBuffer |-> collisions,
          resultsBuffer |-> results,
          computeShaderBindGroup |-> [input |-> input, collisions |-> collisions],
          numberOfPlanets |-> numberOfPlanets],
       deviceErrors |-> IF fits THEN {} ELSE {"writeBuffer"}]

\* A kernel whose loop starts at 0 instead of index + 1.
SubmissionLoopFromZero(input, collisions, groups, invocations, dst, size, tag) ==
  [kind |-> "submit", input |-> input, collisions |-> collisions,
   groups |-> groups, loopI |-> [idx \in invocations |-> 0],
   store |-> [idx \in invocations |-> NoStore],
   dst |-> dst, size |-> size, tag |-> tag]

\* An entry of the queue timeline: one submission (compute pass, copy and
\* clear) or one map request.
Submission(input, collisions, groups, invocations, dst, size, tag) ==
  [kind |-> "submit", input |-> input, collisions |-> collisions,
   groups |-> groups, loopI |-> [idx \in invocations |-> idx + 1],
   store |-> [idx \in invocations |-> NoStore],
   dst |-> dst, size |-> size, tag |-> tag]

MapRequest(buffer, tag) ==
  [kind |-> "map", input |-> 0, collisions |-> 0, groups |-> 0,
   loopI |-> [idx \in {} |-> 0], store |-> [idx \in {} |-> NoStore],
   dst |-> buffer, size |-> 0, tag |-> tag]

\* The invocations of a dispatch that pass the arrayLength test.
ActiveInvocations(groups, length) ==
  {idx \in 0..(groups * WORKGROUP_SIZE - 1) : idx < length}

\* checkCollisionViaComputeShader({numberOfPlanets}) up to its await: the
\* commands are encoded and submitted and the results buffer is asked to
\* map. A submit that uses a buffer that is mapped or has a map pending is a
\* validation error and runs nothing; mapAsync on such a buffer rejects.
checkCollisionViaComputeShader(buffers, cl, queue, numberOfPlanets, tag) ==
  IF cl = NoClosure
    THEN [gpuBuffers |-> buffers, deviceQueue |-> queue,
          jsErrors |-> {[error |-> "TypeError", at |-> "setBindGroup",
                         check |-> tag.id, recreated |-> FALSE]},
          deviceErrors |-> {}]
    ELSE
      LET results == cl.resultsBuffer
          bind == cl.computeShaderBindGroup
          groups == CeilDiv(numberOfPlanets, WORKGROUP_SIZE)
          available == buffers[results].mapState = "unmapped"
          submission ==
            Submission(bind.input, bind.collisions, groups,
                       ActiveInvocations(groups, InputArrayLength(buffers[bind.input])),
                       results, buffers[results].size, tag)
      IN  IF available
            THEN [gpuBuffers |-> [buffers EXCEPT ![results].mapState = "pending"],
                  deviceQueue |-> queue \o <<submission, MapRequest(results, tag)>>,
                  jsErrors |-> {}, deviceErrors |-> {}]
            ELSE [gpuBuffers |-> buffers, deviceQueue |-> queue,
                  jsErrors |-> {[error |-> "OperationError", at |-> "mapAsync",
                                 check |-> tag.id, recreated |-> FALSE]},
                  deviceErrors |-> {"submit"}]

(***************************************************************************)
(* The device: the queue timeline and the resolution of map requests       *)
(***************************************************************************)
\* One iteration of the for loop of compute_collision in invocation idx of
\* the dispatch at the head of the queue, up to the atomicAdd: the pair is
\* tested and, on a hit, the counter is incremented and its prior value is
\* the index of the store that follows.  Where that store will land is
\* settled here; the store itself is made by KernelStore, after whatever the
\* other invocations do in between.
KernelStep(idx) ==
  /\ deviceQueue # <<>>
  /\ Head(deviceQueue).kind = "submit"
  /\ idx \in DOMAIN Head(deviceQueue).loopI
  /\ Head(deviceQueue).store[idx] = NoStore
  /\ LET head == Head(deviceQueue)
         input == gpuBuffers[head.input]
         out == gpuBuffers[head.collisions]
         i == head.loopI[idx]
         a == PointAt(input, idx)
         b == PointAt(input, i)
         hit == check_collision(a, b)
         added == atomicAdd(out.bytes, 0, 1)
         index == added.prior
         capacity == DataArrayLength(out)
     IN  /\ i < InputArrayLength(input)
         /\ gpuBuffers' =
              [gpuBuffers EXCEPT ![head.collisions].bytes =
                 IF hit THEN added.bytes ELSE @]
         /\ \E target \in (IF hit THEN StoreTargets(index, capacity) ELSE {0 - 1}) :
              /\ tested' = tested \cup
                   {[check |-> head.tag.id, idx |-> idx, i |-> i, a |-> a, b |-> b,
                     hit |-> hit, index |-> IF hit THEN index ELSE 0 - 1,
                     target |-> target, capacity |-> capacity]}
              /\ deviceQueue' =
                   <<IF hit
                       THEN [head EXCEPT !.store[idx] = [word |-> 0, target |-> target]]
                       ELSE [head EXCEPT !.loopI[idx] = i + 1]>>
                   \o Tail(deviceQueue)
  /\ UNCHANGED <<closure, jsErrors, deviceErrors, notified, checksStarted, recreates>>
  /\ UNCHANGED <<obsVars, renderVars, parseVars, frameVars, meshVars, tailVars, spawnVars, cameraVars, gateVars>>

\* collisions.data[index] = pair in invocation idx, one 4-byte word at a
\* time: currentIdx, then i.  A word that lies beyond the buffer is not
\* written.  After the second word the loop goes on with i + 1.
KernelStore(idx) ==
  /\ deviceQueue # <<>>
  /\ Head(deviceQueue).kind = "submit"
  /\ idx \in DOMAIN Head(deviceQueue).loopI
  /\ Head(deviceQueue).store[idx] # NoStore
  /\ LET head == Head(deviceQueue)
         st == head.store[idx]
         i == head.loopI[idx]
     IN  /\ gpuBuffers' =
              [gpuBuffers EXCEPT ![head.collisions].bytes =
                 StoreU32(@, st.target + 4 * st.word, IF st.word = 0 THEN idx ELSE i)]
         /\ deviceQueue' =
              <<IF st.word = 0
                  THEN [head EXCEPT !.store[idx].word = 1]
                  ELSE [head EXCEPT !.store[idx] = NoStore, !.loopI[idx] = i + 1]>>
              \o Tail(deviceQueue)
  /\ UNCHANGED <<closure, jsErrors, deviceErrors, notified, tested,
                 checksStarted, recreates>>
  /\ UNCHANGED <<obsVars, renderVars, parseVars, frameVars, meshVars, tailVars, spawnVars, cameraVars, gateVars>>

\* Every invocation has returned: the submission goes on with
\* copyBufferToBuffer(collisionsBuffer, 0, resultsBuffer, 0, size) and
\* clearBuffer(collisionsBuffer), and leaves the queue.
SubmissionEnd ==
  /\ deviceQueue # <<>>
  /\ Head(deviceQueue).kind = "submit"
  /\ LET head == Head(deviceQueue)
         src == gpuBuffers[head.collisions]
     IN  /\ \A idx \in DOMAIN head.loopI :
              head.loopI[idx] >= InputArrayLength(gpuBuffers[head.input])
         /\ gpuBuffers' =
              [gpuBuffers EXCEPT
                 ![head.dst].bytes = SubSeq(src.bytes, 1, head.size)
                                       \o SubSeq(@, head.size + 1, Len(@)),
                 ![head.dst].filledBy = head.tag,
                 ![head.collisions].bytes = clearBuffer(@)]
         /\ deviceQueue' = Tail(deviceQueue)
  /\ UNCHANGED <<closure, jsErrors, deviceErrors, notified, tested,
                 checksStarted, recreates>>
  /\ UNCHANGED <<obsVars, renderVars, parseVars, frameVars, meshVars, tailVars, spawnVars, cameraVars, gateVars>>

\* The map request at the head of the queue resolves: the buffer it was made
\* on becomes mapped and checkCollisionViaComputeShader continues after its
\* await, in the same task, with whatever resultsBuffer now refers to:
\* getMappedRange() (an OperationError unless that buffer is mapped),
\* parseResultsBuffer and unmap().
MapAsyncResolved ==
  /\ deviceQueue # <<>>
  /\ Head(deviceQueue).kind = "map"
  /\ LET head == Head(deviceQueue)
         mapped == [gpuBuffers EXCEPT ![head.dst].mapState = "mapped"]
         rb == closure.resultsBuffer
         ok == mapped[rb].mapState = "mapped"
         collisions == parseResultsBuffer(mapped[rb].bytes)
     IN  /\ gpuBuffers' = IF ok THEN [mapped EXCEPT ![rb].mapState = "unmapped"]
                                ELSE mapped
         /\ notified' =
              IF ok THEN Append(notified, Publication(collisions, mapped[rb].filledBy,
                                                      head.tag, countEpoch))
                    ELSE notified
         /\ jsErrors' =
              IF ok THEN jsErrors
              ELSE jsErrors \cup {[error |-> "OperationError", at |-> "getMappedRange",
                                   check |-> head.tag.id, recreated |-> rb # head.dst]}
         /\ delivered' = IF ok THEN notify(subscriptions, "collisions", collisions)
                               ELSE delivered
         /\ lastCall' =
              IF ok THEN [op |-> "notify", topic |-> "collisions", id |-> "none",
                          callback |-> "none", value |-> collisions]
                    ELSE lastCall
         /\ deviceQueue' = Tail(deviceQueue)
  /\ UNCHANGED <<subscriptions, members, subBefore, registered>>
  /\ UNCHANGED <<closure, deviceErrors, tested, checksStarted, recreates>>
  /\ UNCHANGED <<renderVars, parseVars, frameVars, meshVars, tailVars, spawnVars, cameraVars, gateVars>>

(***************************************************************************)
(* The collision engine called directly, one check at a time               *)
(***************************************************************************)
RecreateComputeShaderBuffers(numberOfPlanets, points) ==
  /\ recreates < MaxRecreates
  /\ deviceQueue = <<>>
  /\ LET r == recreateComputeShaderBuffers(gpuBuffers, numberOfPlanets, points)
     IN  /\ gpuBuffers' = r.gpuBuffers
         /\ closure' = r.closure
         /\ deviceErrors' = deviceErrors \cup r.deviceErrors
  /\ recreates' = recreates + 1
  /\ UNCHANGED <<deviceQueue, jsErrors, notified, tested, checksStarted>>
  /\ UNCHANGED <<obsVars, renderVars, parseVars, frameVars, meshVars, tailVars, spawnVars, cameraVars, gateVars>>

\* checkCollisionViaComputeShader on the buffers of the last recreate.
CheckCollisionViaComputeShader ==
  /\ checksStarted < MaxChecks
  /\ deviceQueue = <<>>
  /\ closure # NoClosure
  /\ LET tag == [id |-> checksStarted + 1, n |-> closure.numberOfPlanets,
                 epoch |-> countEpoch,
                 points |-> gpuBuffers[closure.planetsCenterPointAndRadiusBuffer].points]
         c == checkCollisionViaComputeShader(gpuBuffers, closure, deviceQueue,
                                             closure.numberOfPlanets, tag)
     IN  /\ gpuBuffers' = c.gpuBuffers
         /\ deviceQueue' = c.deviceQueue
         /\ jsErrors' = jsErrors \cup c.jsErrors
         /\ deviceErrors' = deviceErrors \cup c.deviceErrors
  /\ checksStarted' = checksStarted + 1
  /\ tested' = {}
  /\ UNCHANGED <<closure, notified, recreates>>
  /\ UNCHANGED <<obsVars, renderVars, parseVars, frameVars, meshVars, tailVars, spawnVars, cameraVars, gateVars>>

NextKernel ==
  \/ \E numberOfPlanets \in 1..MaxBodies :
       \E points \in KernelPoints(numberOfPlanets) :
         RecreateComputeShaderBuffers(numberOfPlanets, points)
  \/ CheckCollisionViaComputeShader
  \/ \E idx \in 0..(MaxBodies - 1) : KernelStep(idx)
  \/ \E idx \in 0..(MaxBodies - 1) : KernelStore(idx)
  \/ SubmissionEnd
  \/ MapAsyncResolved


InitEngineIdle ==
  /\ gpuBuffers = <<>>
  /\ closure = NoClosure
  /\ deviceQueue = <<>>
  /\ jsErrors = {}
  /\ deviceErrors = {}
  /\ notified = <<>>
  /\ tested = {}
  /\ checksStarted = 0
  /\ recreates = 0

InitFrameIdle ==
  /\ uiSettings = [planets |-> 0, checkCollisions |-> FALSE, tail |-> FALSE,
                   armor |-> FALSE]
  /\ currentFrame = 0
  /\ currentPlanetsForComputeShader = 0
  /\ planetsCenterPointsAndRadius = <<>>
  /\ rafScheduled = FALSE
  /\ countEpoch = 0
  /\ uiChanges = 0


(***************************************************************************)
(* Tail (tail.ts)                                                          *)
(***************************************************************************)
MaxTailDraws == 3

\* resetCoordinatesPerPlanet() left out of resetTailVariables.
resetCoordinatesPerPlanetSkipped == coordinatesPerPlanet

\* resetCoordinatesPerPlanet()
resetCoordinatesPerPlanet == 0

\* resetTailCenterPositionsComplete()
resetTailCenterPositionsComplete == <<>>

\* The closure variables of Tail(), as one record.
TailState ==
  [coordinatesPerPlanet |-> coordinatesPerPlanet,
   tailCenterPositionsComplete |-> tailCenterPositionsComplete,
   tailCenterPositions |-> tailCenterPositions,
   tailVertexBuffer |-> tailVertexBuffer]

\* tailCenterPositionsComplete.filter(item => item.planetIdx === i)
\*   .map(item => vec3.fromValues(item.x, item.y, item.z))
CoordinatesOfPlanetCenterPoint(complete, i) ==
  LET kept == SelectSeq(complete, LAMBDA item : item.planetIdx = i)
  IN  [k \in 1..Len(kept) |-> <<kept[k].x, kept[k].y, kept[k].z>>]

\* The samples of the list in the order in which they were taken.
OrderFromAsTaken(positions, complete, i, numberOfPlanets) ==
  [k \in 1..Len(complete) |-> <<complete[k].x, complete[k].y, complete[k].z>>]

RECURSIVE OrderFrom(_, _, _, _)
\* for (let i = 0; i < numberOfPlanets; i++) tailCenterPositions.push(...)
OrderFrom(positions, complete, i, numberOfPlanets) ==
  IF i >= numberOfPlanets THEN positions
  ELSE OrderFrom(positions \o CoordinatesOfPlanetCenterPoint(complete, i),
                 complete, i + 1, numberOfPlanets)

\* No derivation of centres was asked for.
NoDerivation == [n |-> 0, slots |-> 0, records |-> 0]

\* updateVariableTailBuffers({numberOfPlanets, planetsBuffers, ...}) on the
\* closure state tl; what getPlanetsCenterPointAndRadius throws leaves tl as
\* it was.
updateVariableTailBuffers(tl, numberOfPlanets, bodies, size, array) ==
  LET planetsCenter == getPlanetsCenterPointAndRadius(numberOfPlanets, bodies,
                                                      size, array)
      complete == tl.tailCenterPositionsComplete \o planetsCenter.points
      positions == OrderFrom(<<>>, complete, 0, numberOfPlanets)
      asked == [n |-> numberOfPlanets,
                slots |-> (Len(array) * BYTES_PER_ELEMENT) \div size,
                records |-> Len(bodies)]
  IN  IF planetsCenter.error # "none"
        THEN [error |-> planetsCenter.error, sampled |-> FALSE, taken |-> <<>>,
              asked |-> asked, state |-> tl]
        ELSE [error |-> "none", sampled |-> TRUE, taken |-> planetsCenter.points,
              asked |-> asked,
              state |->
                [coordinatesPerPlanet |-> tl.coordinatesPerPlanet + 1,
                 tailCenterPositionsComplete |-> complete,
                 tailCenterPositions |-> positions,
                 tailVertexBuffer |->
                   [size |-> Len(positions) * 3 * BYTES_PER_ELEMENT,
                    vertices |-> positions]]]

\* A draw of coordinatesPerPlanet * numberOfPlanets vertices, whatever the
\* length of the list.
TailDrawCountNoSlice(positions, perPlanet, numberOfPlanets) ==
  perPlanet * numberOfPlanets

\* tailCenterPositions.slice(0, coordinatesPerPlanet * numberOfPlanets).length
TailDrawCount(positions, perPlanet, numberOfPlanets) ==
  Min(Len(positions), perPlanet * numberOfPlanets)

NoTailDraw ==
  [drawn |-> FALSE, vertexCount |-> 0, coordinatesPerPlanet |-> 0,
   numberOfPlanets |-> 0, listLength |-> 0]

\* renderTail({numberOfPlanets, ..., recalculateTailBuffer}) on the closure
\* state tl.
renderTail(tl, numberOfPlanets, bodies, size, array, recalculateTailBuffer) ==
  LET u == IF recalculateTailBuffer \/ Len(tl.tailCenterPositions) = 0
             THEN updateVariableTailBuffers(tl, numberOfPlanets, bodies, size, array)
             ELSE [error |-> "none", sampled |-> FALSE, taken |-> <<>>, asked |-> NoDerivation, state |-> tl]
      st == u.state
  IN  [error |-> u.error, sampled |-> u.sampled, taken |-> u.taken,
       asked |-> u.asked, state |-> st,
       draw |->
         IF u.error # "none" THEN NoTailDraw
         ELSE [drawn |-> TRUE,
               vertexCount |-> TailDrawCount(st.tailCenterPositions,
                                             st.coordinatesPerPlanet,
                                             numberOfPlanets),
               coordinatesPerPlanet |-> st.coordinatesPerPlanet,
               numberOfPlanets |-> numberOfPlanets,
               listLength |-> Len(st.tailCenterPositions)]]

\* resetTailVariables()
resetTailVariables(tl) ==
  [tl EXCEPT !.tailCenterPositionsComplete = resetTailCenterPositionsComplete,
             !.coordinatesPerPlanet = resetCoordinatesPerPlanet]

\* History: the samples taken and the vertex counts drawn since the last
\* reset, and what that reset was part of.
\* calls: what each updateVariableTailBuffers since the reset sampled.
\* derived: the body count each of them asked centres for, with the slots of
\* the packed array and the records of the body list it was handed.
\* changed: the body list was rebuilt with the tail on and no reset since;
\* mixed: renderTail has drawn since then.
NoTailLog ==
  [samples |-> 0, draws |-> <<>>, cause |-> "none", calls |-> <<>>,
   derived |-> <<>>, changed |-> "none", mixed |-> FALSE]

ResetLog(cause) == [NoTailLog EXCEPT !.cause = cause]

\* The log after an updateVariableTailBuffers that returned u.
LogSample(log, u) ==
  [log EXCEPT !.samples = IF u.sampled THEN @ + 1 ELSE @,
              !.calls = IF u.sampled THEN Append(@, u.taken) ELSE @,
              !.derived = IF u.asked.n > 0 THEN Append(@, u.asked) ELSE @]

\* The closure variables take the values of the record st.
TailBecomes(st) ==
  /\ coordinatesPerPlanet' = st.coordinatesPerPlanet
  /\ tailCenterPositionsComplete' = st.tailCenterPositionsComplete
  /\ tailCenterPositions' = st.tailCenterPositions
  /\ tailVertexBuffer' = st.tailVertexBuffer

\* The log after a call of renderTail that returned r.
LogRender(log, r) ==
  [LogSample(log, r) EXCEPT
     !.draws = IF r.draw.drawn THEN Append(@, r.draw.vertexCount) ELSE @,
     !.mixed = @ \/ (r.draw.drawn /\ log.changed # "none")]

InitTailIdle ==
  /\ coordinatesPerPlanet = 0
  /\ tailCenterPositionsComplete = <<>>
  /\ tailCenterPositions = <<>>
  /\ tailVertexBuffer = [size |-> 0, vertices |-> <<>>]
  /\ tailDraw = NoTailDraw
  /\ tailLog = NoTailLog

(***************************************************************************)
(* The frame loop and the UI callback                                      *)
(***************************************************************************)
CHECK_COLLISION_FREQUENCY == 1097
MaxFramePlanets == 2
MaxFrame == 2
MaxUiChanges == 2
MaxLongUiChanges == 1

\* An error raised in script outside a collision check.
ScriptError(error, at) ==
  [error |-> error, at |-> at, check |-> 0, recreated |-> FALSE]

\* resetCurrentFrame()
resetCurrentFrame == 0

\* The number a loop bound `i < value` compares with when value is a boolean.
BooleanAsNumber(value) == IF value THEN 1 ELSE 0

\* uiCallback("planets", value): the body-count slider moved to value.  With
\* the tail on, the tail is reset and sampled again for the new bodies.
UiPlanets(value, radii) ==
  /\ uiChanges < MaxUiChanges
  /\ value # uiSettings.planets
  /\ uiSettings' = [uiSettings EXCEPT !.planets = value]
  /\ planetsBuffers' = createPlanets(radii)
  /\ LET u == IF uiSettings.tail
                THEN updateVariableTailBuffers(resetTailVariables(TailState), value,
                                               planetsBuffers',
                                               modelMatrixUniformBufferSize,
                                               allModelMatrices)
                ELSE [error |-> "none", sampled |-> FALSE, taken |-> <<>>, asked |-> NoDerivation,
                      state |-> TailState]
     IN  /\ TailBecomes(u.state)
         /\ tailLog' = IF uiSettings.tail THEN LogSample(ResetLog("planets"), u)
                       ELSE tailLog
         /\ currentFrame' = IF u.error = "none" THEN resetCurrentFrame
                            ELSE currentFrame
  /\ countEpoch' = countEpoch + 1
  /\ uiChanges' = uiChanges + 1
  /\ UNCHANGED tailDraw
  /\ UNCHANGED <<currentPlanetsForComputeShader, planetsCenterPointsAndRadius,
                 rafScheduled>>
  /\ UNCHANGED <<alignment, modelMatrixUniformBufferSize, planetsCount,
                 allModelMatrices, modelMatrixUniformBuffer, renderCall, scenarioStage>>
  /\ UNCHANGED <<obsVars, parseVars, engineVars, meshVars, spawnVars, cameraVars, gateVars>>

\* uiCallback("tail", value): the checkbox was toggled to value.  Off resets
\* the tail; on takes a sample with numberOfPlanets: value.
UiTail ==
  /\ uiChanges < MaxUiChanges
  /\ LET value == ~uiSettings.tail
         u == IF ~value
                THEN [error |-> "none", sampled |-> FALSE, taken |-> <<>>, asked |-> NoDerivation,
                      state |-> resetTailVariables(TailState)]
                ELSE updateVariableTailBuffers(TailState, BooleanAsNumber(value),
                                               planetsBuffers,
                                               modelMatrixUniformBufferSize,
                                               allModelMatrices)
     IN  /\ uiSettings' = [uiSettings EXCEPT !.tail = value]
         /\ TailBecomes(u.state)
         /\ tailLog' = IF ~value THEN ResetLog("tail off") ELSE LogSample(tailLog, u)
         /\ currentFrame' = IF u.error = "none" THEN resetCurrentFrame
                            ELSE currentFrame
  /\ uiChanges' = uiChanges + 1
  /\ UNCHANGED tailDraw
  /\ UNCHANGED <<currentPlanetsForComputeShader, planetsCenterPointsAndRadius,
                 rafScheduled, countEpoch>>
  /\ UNCHANGED <<obsVars, renderVars, parseVars, engineVars, meshVars, spawnVars, cameraVars, gateVars>>

\* uiCallback("latBands") or ("longBands"): createPlanets(uiSettings.planets)
\* rebuilds the body list, then commonSettingsOnChange().
UiBands(radii) ==
  /\ uiChanges < MaxUiChanges
  /\ Len(radii) = uiSettings.planets
  /\ planetsBuffers' = createPlanets(radii)
  /\ currentFrame' = resetCurrentFrame
  /\ uiChanges' = uiChanges + 1
  /\ tailLog' = IF uiSettings.tail THEN [tailLog EXCEPT !.changed = "bands"]
                ELSE tailLog
  /\ UNCHANGED <<coordinatesPerPlanet, tailCenterPositionsComplete,
                 tailCenterPositions, tailVertexBuffer, tailDraw>>
  /\ UNCHANGED <<uiSettings, currentPlanetsForComputeShader,
                 planetsCenterPointsAndRadius, rafScheduled, countEpoch>>
  /\ UNCHANGED <<alignment, modelMatrixUniformBufferSize, planetsCount,
                 allModelMatrices, modelMatrixUniformBuffer, renderCall, scenarioStage>>
  /\ UNCHANGED <<obsVars, parseVars, engineVars, meshVars, spawnVars, cameraVars,
                 gateVars>>

\* renderTail called as frame() calls it, with the recalculateTailBuffer its
\* caller chooses.
RenderTail(recalculateTailBuffer) ==
  /\ uiSettings.tail
  /\ Len(tailLog.draws) < MaxTailDraws
  /\ LET r == renderTail(TailState, uiSettings.planets, planetsBuffers,
                         modelMatrixUniformBufferSize, allModelMatrices,
                         recalculateTailBuffer)
     IN  /\ TailBecomes(r.state)
         /\ tailDraw' = IF r.draw.drawn THEN r.draw ELSE tailDraw
         /\ tailLog' = LogRender(tailLog, r)
  /\ UNCHANGED <<obsVars, renderVars, parseVars, engineVars, frameVars,
                 meshVars, spawnVars, cameraVars, gateVars>>

\* uiCallback("checkCollisions", check): the checkbox was toggled.
UiCheckCollisions ==
  /\ uiChanges < MaxUiChanges
  /\ uiSettings' = [uiSettings EXCEPT !.checkCollisions = ~@]
  /\ currentFrame' = resetCurrentFrame
  /\ uiChanges' = uiChanges + 1
  /\ UNCHANGED <<currentPlanetsForComputeShader, planetsCenterPointsAndRadius,
                 rafScheduled, countEpoch>>
  /\ UNCHANGED <<obsVars, renderVars, parseVars, engineVars, meshVars, tailVars, spawnVars, cameraVars, gateVars>>

\* uiCallback of "armor": dat.gui has stored the box's value in
\* uiSettings.armor, and the callback resets the frame counter.
UiArmor ==
  /\ uiChanges < MaxUiChanges
  /\ uiSettings' = [uiSettings EXCEPT !.armor = ~@]
  /\ currentFrame' = resetCurrentFrame
  /\ uiChanges' = uiChanges + 1
  /\ UNCHANGED <<currentPlanetsForComputeShader, planetsCenterPointsAndRadius,
                 rafScheduled, countEpoch>>
  /\ UNCHANGED <<obsVars, renderVars, parseVars, engineVars, meshVars, tailVars, spawnVars, cameraVars, gateVars>>

\* uiCallback of "eccentricity", "ellipse_a" or "topology".
UiCommonSetting ==
  /\ uiChanges < MaxUiChanges
  /\ currentFrame' = resetCurrentFrame
  /\ uiChanges' = uiChanges + 1
  /\ UNCHANGED <<uiSettings, currentPlanetsForComputeShader,
                 planetsCenterPointsAndRadius, rafScheduled, countEpoch>>
  /\ UNCHANGED <<obsVars, renderVars, parseVars, engineVars, meshVars, tailVars, spawnVars, cameraVars, gateVars>>

(***************************************************************************)
(* The camera: pointer events and hasCameraChangedPositions (utils.ts)     *)
(***************************************************************************)
MaxPointerEvents == 2
PointerDeltas == {0 - 1, 0, 1}

\* The pointerEvents object of the page. Angles count steps of 0.01, offsets
\* steps of 0.1, and scale is 5 times 1.01 to the power zoom.
InitialPointerEvents ==
  [rotationAngleX |-> 0, rotationAngleY |-> 0,
   scale |-> [times |-> 5, zoom |-> 0], offsetX |-> 0, offsetY |-> 0]

\* hasCameraChangedPositions(currCameraInfo, newCameraInfo): five tests in
\* the order of the code, the third and the fourth both on offsetX.
hasCameraChangedPositions(currCameraInfo, newCameraInfo) ==
  IF currCameraInfo.rotationAngleX # newCameraInfo.rotationAngleX THEN TRUE
  ELSE IF currCameraInfo.rotationAngleY # newCameraInfo.rotationAngleY THEN TRUE
  ELSE IF currCameraInfo.offsetX # newCameraInfo.offsetX THEN TRUE
  ELSE IF currCameraInfo.offsetX # newCameraInfo.offsetX THEN TRUE
  ELSE IF currCameraInfo.scale # newCameraInfo.scale THEN TRUE
  ELSE FALSE

NoCameraCall ==
  [called |-> FALSE, curr |-> InitialPointerEvents, new |-> InitialPointerEvents,
   changed |-> FALSE]

\* Buffers created on the first start only.
ShouldRecreateOnce(frame, checkCollisions) ==
  frame = 0 /\ checkCollisions /\ closure = NoClosure

\* The test frame() makes before recreateComputeShaderBuffers.
ShouldRecreate(frame, checkCollisions) ==
  frame = 0 /\ checkCollisions

\* The test frame() makes before checkCollisionViaComputeShader.
ShouldCheck(frame, checkCollisions) ==
  frame % CHECK_COLLISION_FREQUENCY = 0 /\ checkCollisions

\* frame() at time t: the view-projection matrix is recomputed and the copy
\* of the camera refreshed when hasCameraChangedPositions says so, then
\* renderPlanets (an async function: what it throws rejects its promise and
\* frame goes on; the armor draws follow uiSettings.armor), then renderTail
\* when the tail is on (frame passes no recalculateTailBuffer), then the
\* collision part.
FrameWithin(t, limit) ==
  /\ rafScheduled
  /\ currentFrame < limit
  /\ LET n == uiSettings.planets
         size == modelMatrixUniformBufferSize
         cc == uiSettings.checkCollisions
         changed == hasCameraChangedPositions(currentCameraConfigurations,
                                              pointerEvents)
     IN  /\ cameraCall' = [called |-> TRUE, curr |-> currentCameraConfigurations,
                           new |-> pointerEvents, changed |-> changed]
         /\ viewProjectionOf' = IF changed THEN pointerEvents ELSE viewProjectionOf
         /\ currentCameraConfigurations' =
              IF changed THEN pointerEvents ELSE currentCameraConfigurations
         /\ \E packed \in {setModelMatrixUniformBuffer(allModelMatrices, n, size, t)} :
              /\ allModelMatrices' = packed.array
              /\ modelMatrixUniformBuffer' =
                   IF packed.error = "none" THEN packed.buffer
                   ELSE modelMatrixUniformBuffer
              /\ renderCall' =
                   RenderCall(packed,
                              DrawFrom(<<>>, 0, n, size, planetsBuffers, uiSettings.armor),
                              t, n, size, alignment, uiSettings.armor)
         /\ \E tl \in {IF uiSettings.tail
                          THEN renderTail(TailState, n, planetsBuffers, size,
                                          allModelMatrices', FALSE)
                          ELSE [error |-> "none", sampled |-> FALSE, taken |-> <<>>, asked |-> NoDerivation,
                                state |-> TailState, draw |-> NoTailDraw]} :
            \E got \in {IF /\ tl.error = "none"
                            /\ \/ ShouldRecreate(currentFrame, cc)
                               \/ ShouldCheck(currentFrame, cc)
                           THEN getPlanetsCenterPointAndRadius(n, planetsBuffers, size,
                                                               allModelMatrices')
                           ELSE [error |-> "none", points |-> <<>>]} :
              LET derive == /\ tl.error = "none"
                            /\ \/ ShouldRecreate(currentFrame, cc)
                               \/ ShouldCheck(currentFrame, cc)
                  thrown == tl.error # "none" \/ (derive /\ got.error # "none")
                  doRecreate == ~thrown /\ ShouldRecreate(currentFrame, cc)
                  doCheck == ~thrown /\ ShouldCheck(currentFrame, cc)
              IN  /\ TailBecomes(tl.state)
                  /\ tailDraw' = IF tl.draw.drawn THEN tl.draw ELSE tailDraw
                  /\ tailLog' = LogRender(tailLog, tl)
                  /\ planetsCenterPointsAndRadius' =
                       IF derive /\ ~thrown
                         THEN [j \in 1..n |-> <<got.points[j].x, got.points[j].y,
                                                got.points[j].z, got.points[j].radius>>]
                         ELSE planetsCenterPointsAndRadius
                  /\ \E r \in {IF doRecreate
                                  THEN recreateComputeShaderBuffers(gpuBuffers, n,
                                                  planetsCenterPointsAndRadius')
                                  ELSE [gpuBuffers |-> gpuBuffers, closure |-> closure,
                                        deviceErrors |-> {}]} :
                       /\ closure' = r.closure
                       /\ recreates' = IF doRecreate THEN recreates + 1 ELSE recreates
                       /\ \E c \in {IF doCheck
                                       THEN checkCollisionViaComputeShader(
                                              r.gpuBuffers, closure', deviceQueue, n,
                                              [id |-> checksStarted + 1, n |-> n,
                                               epoch |-> countEpoch,
                                               points |-> planetsCenterPointsAndRadius'])
                                       ELSE [gpuBuffers |-> r.gpuBuffers,
                                             deviceQueue |-> deviceQueue,
                                             jsErrors |-> {}, deviceErrors |-> {}]} :
                            /\ gpuBuffers' = c.gpuBuffers
                            /\ deviceQueue' = c.deviceQueue
                            /\ jsErrors' = jsErrors \cup c.jsErrors
                                 \cup (IF renderCall'.error # "none"
                                         THEN {ScriptError(renderCall'.error,
                                                           "renderPlanets")}
                                         ELSE {})
                                 \cup (IF tl.error # "none"
                                         THEN {ScriptError(tl.error, "renderTail")}
                                         ELSE {})
                                 \cup (IF derive /\ got.error # "none"
                                         THEN {ScriptError(got.error,
                                                 "getPlanetsCenterPointAndRadius")}
                                         ELSE {})
                            /\ deviceErrors' = deviceErrors \cup r.deviceErrors
                                 \cup c.deviceErrors
                                 \cup (IF renderCall'.validationError
                                         THEN {"setBindGroup"} ELSE {})
                  /\ checksStarted' = IF doCheck THEN checksStarted + 1
                                      ELSE checksStarted
                  /\ tested' = IF doCheck THEN {} ELSE tested
                  /\ framesSinceCheck' =
                       IF framesSinceCheck < 0 THEN framesSinceCheck
                       ELSE IF doCheck THEN 1
                       ELSE IF checksStarted = 0 THEN 0
                       ELSE Min(framesSinceCheck + 1, CHECK_COLLISION_FREQUENCY)
                  /\ lastCheckGap' =
                       IF framesSinceCheck >= 0 /\ doCheck /\ checksStarted >= 1
                         THEN framesSinceCheck
                         ELSE lastCheckGap
                  /\ currentPlanetsForComputeShader' =
                       IF doCheck THEN n ELSE currentPlanetsForComputeShader
                  /\ currentFrame' = IF thrown THEN currentFrame ELSE currentFrame + 1
                  /\ rafScheduled' = ~thrown
  /\ UNCHANGED <<uiSettings, countEpoch, uiChanges, notified>>
  /\ UNCHANGED <<alignment, modelMatrixUniformBufferSize, planetsCount,
                 planetsBuffers, scenarioStage>>
  /\ UNCHANGED <<pointerEvents, pointerCount>>
  /\ UNCHANGED <<obsVars, parseVars, meshVars, spawnVars>>

\* The frames of a short run.
Frame(t) == FrameWithin(t, MaxFrame)

\* The frames of a run that reaches the second periodic check.
FrameLong(t) == FrameWithin(t, CHECK_COLLISION_FREQUENCY + 1)

NextFrame ==
  \/ \E value \in 1..MaxFramePlanets :
       \E radii \in [1..value -> Radii] : UiPlanets(value, radii)
  \/ UiCheckCollisions
  \/ UiCommonSetting
  \/ \E t \in Times : Frame(t)
  \/ \E idx \in 0..(MaxFramePlanets - 1) : KernelStep(idx)
  \/ \E idx \in 0..(MaxFramePlanets - 1) : KernelStore(idx)
  \/ SubmissionEnd
  \/ MapAsyncResolved

\* initPlanet(): the module has run and the first frame is requested. The
\* module waits for the textures with the UI callback installed, so the
\* slider and the boxes are as the user left them during the wait: dat.gui
\* has stored each value, and uiCallback has changed nothing else (at that
\* point it can reset currentFrame, already 0; what it calls for the tail
\* and the bodies is not initialised yet). After the wait the module runs
\* createPlanets(uiSettings.planets) and copies uiSettings.planets.
InitFrameLoop ==
  /\ uiSettings \in [planets : 1..MaxFramePlanets, checkCollisions : BOOLEAN,
                     tail : BOOLEAN, armor : BOOLEAN]
  /\ currentFrame = 0
  /\ currentPlanetsForComputeShader = uiSettings.planets
  /\ planetsCenterPointsAndRadius = <<>>
  /\ rafScheduled = TRUE
  /\ countEpoch = 0
  /\ uiChanges = 0
  /\ alignment = 256
  /\ modelMatrixUniformBufferSize = roundUp(MAT4X4_BYTE_LENGTH, alignment)
  /\ planetsCount = 0
  /\ allModelMatrices =
       Zeros((modelMatrixUniformBufferSize * uiSettings.planets) \div BYTES_PER_ELEMENT)
  /\ modelMatrixUniformBuffer = [size |-> 0, data |-> <<>>]
  /\ planetsBuffers \in {createPlanets(radii) :
                           radii \in [1..uiSettings.planets -> Radii]}
  /\ renderCall = NoRenderCall
  /\ scenarioStage = 0

(***************************************************************************)
(* createSphereMesh (utils.ts)                                             *)
(***************************************************************************)
MaxBands == 4
Bands == (0 - 1)..MaxBands
MeshRadii == {1, 2, 3}

\* The vertices pushed by the first pair of loops, lat = 0..latBands and
\* lon = 0..longBands, in push order.  A vertex is kept as its band
\* coordinates; its position is not a number when an angle is 0 / 0.
SphereVertices(radius, latBands, longBands) ==
  IF latBands < 0 \/ longBands < 0 THEN <<>>
  ELSE [k \in 1..((latBands + 1) * (longBands + 1)) |->
         [lat |-> (k - 1) \div (longBands + 1),
          lon |-> (k - 1) % (longBands + 1),
          radius |-> radius,
          isNaN |-> latBands = 0 \/ longBands = 0]]

\* The six indices pushed for the quad at (lat, lon).
QuadIndices(lat, lon, longBands) ==
  LET moveVerticallyToNextLatitudeBand == longBands + 1
      first == lat * moveVerticallyToNextLatitudeBand + lon
      second == first + moveVerticallyToNextLatitudeBand
  IN  <<first, second, first + 1, second, second + 1, first + 1>>

\* An index loop that also visits lat = latBands and lon = longBands.
SphereIndicesInclusive(latBands, longBands) ==
  IF latBands < 0 \/ longBands < 0 THEN <<>>
  ELSE [k \in 1..((latBands + 1) * (longBands + 1) * 6) |->
         QuadIndices(((k - 1) \div 6) \div (longBands + 1),
                     ((k - 1) \div 6) % (longBands + 1),
                     longBands)[((k - 1) % 6) + 1]]

\* The indices pushed by the second pair of loops, lat = 0..latBands-1 and
\* lon = 0..longBands-1, in push order.
SphereIndices(latBands, longBands) ==
  IF latBands <= 0 \/ longBands <= 0 THEN <<>>
  ELSE [k \in 1..(latBands * longBands * 6) |->
         QuadIndices(((k - 1) \div 6) \div longBands,
                     ((k - 1) \div 6) % longBands,
                     longBands)[((k - 1) % 6) + 1]]

\* createSphereMesh({radius, latBands, longBands}): no statement of the
\* function throws, so every call returns a mesh.
createSphereMesh(radius, latBands, longBands) ==
  LET vertices == SphereVertices(radius, latBands, longBands)
  IN  [error |-> "none",
       returned |-> TRUE,
       vertices |-> vertices,
       positionAndTexCoordsLength |-> 5 * Len(vertices),
       normalsLength |-> 3 * Len(vertices),
       indices |-> SphereIndices(latBands, longBands)]

NoMeshCall ==
  [called |-> FALSE, radius |-> 0, latBands |-> 0, longBands |-> 0,
   result |-> [error |-> "none", returned |-> FALSE, vertices |-> <<>>,
               positionAndTexCoordsLength |-> 0, normalsLength |-> 0,
               indices |-> <<>>]]

InitMeshIdle == meshCall = NoMeshCall

CreateSphereMesh(radius, latBands, longBands) ==
  /\ meshCall' = [called |-> TRUE, radius |-> radius, latBands |-> latBands,
                  longBands |-> longBands,
                  result |-> createSphereMesh(radius, latBands, longBands)]
  /\ UNCHANGED <<obsVars, renderVars, parseVars, engineVars, frameVars,
                 tailVars, spawnVars, cameraVars, gateVars>>

NextMesh ==
  \E radius \in MeshRadii, latBands \in Bands, longBands \in Bands :
    CreateSphereMesh(radius, latBands, longBands)

(***************************************************************************)
(* CreatePlanets: create                                                   *)
(***************************************************************************)
MaxCreated == 5
MaxSpawn == 2
Undefined == 0 - 1

RECURSIVE CreateFromSkipExisting(_, _, _, _)
\* The loop with the commented-out guard active: an index the list already
\* holds is skipped.
CreateFromSkipExisting(list, i, planetsToCreate, radius) ==
  IF i >= planetsToCreate THEN list
  ELSE IF i < Len(list) - 1
    THEN CreateFromSkipExisting(list, i + 1, planetsToCreate, radius)
    ELSE CreateFromSkipExisting(Append(list, [radius |-> radius]), i + 1,
                                planetsToCreate, radius)

RECURSIVE CreateFrom(_, _, _, _)
\* for (let i = 0; i < planetsToCreate; i++) planetsBuffers.push({..., radius}):
\* radius is the argument or, without one, the random radius of the first
\* iteration.
CreateFrom(list, i, planetsToCreate, radius) ==
  IF i >= planetsToCreate THEN list
  ELSE CreateFrom(Append(list, [radius |-> radius]), i + 1, planetsToCreate, radius)

\* create({planetsToCreate, currentNumberOfPlanets, radius, addNew,
\* updateLatOrLongBands}) on the list; planetsToCreate = Undefined when the
\* caller passes none.  published: the values notified on "planets", the
\* second one by the slider's onChange when setValue is called.
create(list, planetsToCreate, currentNumberOfPlanets, radius, addNew, updateLatOrLongBands) ==
  LET toCreate == IF planetsToCreate = Undefined THEN currentNumberOfPlanets
                  ELSE planetsToCreate
      start == IF updateLatOrLongBands THEN <<>> ELSE list
  IN  [planetsBuffers |-> CreateFrom(start, 0, toCreate, radius),
       published |-> IF addNew
                       THEN <<currentNumberOfPlanets + toCreate,
                              currentNumberOfPlanets + toCreate>>
                       ELSE <<>>,
       planets |-> IF addNew THEN currentNumberOfPlanets + toCreate
                   ELSE uiSettings.planets]

NoCreateCall ==
  [called |-> FALSE, planetsToCreate |-> 0, currentNumberOfPlanets |-> 0,
   addNew |-> FALSE, updateLatOrLongBands |-> FALSE, before |-> 0,
   published |-> <<>>]

InitSpawnIdle ==
  /\ createCall = NoCreateCall
  /\ createPending = FALSE

\* One call of create with the count the UI holds as currentNumberOfPlanets;
\* what it notifies on "planets" reaches render.ts's subscriber.  Whether
\* the call is the creation a slider move asks for is its caller's matter.
Create(planetsToCreate, radius, addNew, updateLatOrLongBands) ==
  LET c == uiSettings.planets
      r == create(planetsBuffers, planetsToCreate, c, radius, addNew,
                  updateLatOrLongBands)
      calls == IF Len(r.published) = 0 THEN <<>>
               ELSE notify(subscriptions, "planets", r.published[Len(r.published)])
  IN  /\ Len(r.planetsBuffers) <= MaxCreated
      /\ planetsBuffers' = r.planetsBuffers
      /\ uiSettings' = [uiSettings EXCEPT !.planets = r.planets]
      /\ delivered' = IF Len(r.published) = 0 THEN delivered ELSE calls
      /\ lastCall' = IF Len(r.published) = 0 THEN lastCall
                     ELSE [op |-> "notify", topic |-> "planets", id |-> "none",
                           callback |-> "none",
                           value |-> r.published[Len(r.published)]]
      /\ planetsCount' =
           IF \E i \in 1..Len(calls) : calls[i].callback = "setPlanetsCount"
             THEN calls[1].value ELSE planetsCount
      /\ createCall' = [called |-> TRUE, planetsToCreate |-> planetsToCreate,
                        currentNumberOfPlanets |-> c, addNew |-> addNew,
                        updateLatOrLongBands |-> updateLatOrLongBands,
                        before |-> Len(planetsBuffers),
                        published |-> r.published]
      /\ UNCHANGED <<subscriptions, members, subBefore, registered>>
      /\ UNCHANGED <<alignment, modelMatrixUniformBufferSize, allModelMatrices,
                     modelMatrixUniformBuffer, renderCall, scenarioStage>>
      /\ UNCHANGED <<currentFrame, currentPlanetsForComputeShader,
                     planetsCenterPointsAndRadius, rafScheduled, countEpoch,
                     uiChanges>>
      /\ UNCHANGED <<parseVars, engineVars, meshVars, tailVars, cameraVars, gateVars>>

\* The planets slider moved to n: dat.gui stores n in UI_SETTINGS.planets and
\* onChange notifies it on "planets" (ui.ts), which render.ts's subscriber
\* stores as the count.  The body list stays as it is; the bodies of the
\* new count are for the driver to create.
SliderMoved(n) ==
  /\ n # uiSettings.planets
  /\ uiSettings' = [uiSettings EXCEPT !.planets = n]
  /\ delivered' = notify(subscriptions, "planets", n)
  /\ lastCall' = [op |-> "notify", topic |-> "planets", id |-> "none",
                  callback |-> "none", value |-> n]
  /\ planetsCount' =
       IF \E i \in 1..Len(delivered') : delivered'[i].callback = "setPlanetsCount"
         THEN n ELSE planetsCount
  /\ createPending' = TRUE
  /\ UNCHANGED <<createCall, planetsBuffers>>
  /\ UNCHANGED <<subscriptions, members, subBefore, registered>>
  /\ UNCHANGED <<alignment, modelMatrixUniformBufferSize, allModelMatrices,
                 modelMatrixUniformBuffer, renderCall, scenarioStage>>
  /\ UNCHANGED <<currentFrame, currentPlanetsForComputeShader,
                 planetsCenterPointsAndRadius, rafScheduled, countEpoch,
                 uiChanges>>
  /\ UNCHANGED <<parseVars, engineVars, meshVars, tailVars, cameraVars, gateVars>>

\* The driver's answer to a slider move: the bodies of the new count are
\* created, as uiCallback("planets", value) does with createPlanets(value),
\* through create with currentNumberOfPlanets = the UI's count and no
\* planetsToCreate, onto the list that exists.  The driver that makes this
\* call is not among the sources; it is taken from the specification
\* (bodies are created when the body count grows, and the buffers are
\* resized before the redraw).
CreateOnPlanetsChange(radius) ==
  /\ createPending
  /\ Create(Undefined, radius, FALSE, FALSE)
  /\ createPending' = FALSE

\* The spawner's call of create (addNew, one body per collision); a creation
\* owed to the slider stays owed.
Spawn(planetsToCreate, radius) ==
  /\ Create(planetsToCreate, radius, TRUE, FALSE)
  /\ UNCHANGED createPending

\* The call of create after a change of latBands or longBands: the list is
\* rebuilt for the UI's count, which is also what a slider move asks for.
BandsCreate(radius) ==
  /\ Create(Undefined, radius, FALSE, TRUE)
  /\ createPending' = FALSE

NextSpawn ==
  \/ \E planetsToCreate \in 0..MaxSpawn, radius \in Radii :
       Spawn(planetsToCreate, radius)
  \/ \E radius \in Radii : BandsCreate(radius)
  \/ \E n \in 1..MaxPlanets : SliderMoved(n)
  \/ \E radius \in Radii : CreateOnPlanetsChange(radius)

\* Render is constructed and subscribed, and the UI holds the count the
\* bodies were created for.
InitSpawnLoop ==
  /\ uiSettings = [planets |-> planetsCount, checkCollisions |-> FALSE,
                   tail |-> FALSE, armor |-> FALSE]
  /\ currentFrame = 0
  /\ currentPlanetsForComputeShader = planetsCount
  /\ planetsCenterPointsAndRadius = <<>>
  /\ rafScheduled = FALSE
  /\ countEpoch = 0
  /\ uiChanges = 0

(***************************************************************************)
(* The camera: the pointer listeners (utils.ts)                            *)
(***************************************************************************)
InitGateIdle ==
  /\ framesSinceCheck = 0 - 1
  /\ lastCheckGap = 0 - 1

\* The frames between two checks are counted from the start of the page.
InitGateCounting ==
  /\ framesSinceCheck = 0
  /\ lastCheckGap = 0 - 1

InitCameraIdle ==
  /\ pointerEvents = InitialPointerEvents
  /\ currentCameraConfigurations = InitialPointerEvents
  /\ viewProjectionOf = InitialPointerEvents
  /\ cameraCall = NoCameraCall
  /\ pointerCount = 0

\* The pointerEvents object after at most one pointer event on the canvas
\* while the module waits for the textures.
LoadPointerEvents ==
  {InitialPointerEvents,
   [InitialPointerEvents EXCEPT !.offsetX = 1],
   [InitialPointerEvents EXCEPT !.offsetY = 1],
   [InitialPointerEvents EXCEPT !.rotationAngleX = 1],
   [InitialPointerEvents EXCEPT !.scale.zoom = 1]}

\* The camera when the first frame is requested: the pointer listeners are
\* installed before the module waits for the textures; after the wait the
\* module computes the view-projection matrix from pointerEvents and copies
\* pointerEvents into currentCameraConfigurations.
InitCameraLoaded ==
  /\ pointerEvents \in LoadPointerEvents
  /\ currentCameraConfigurations = pointerEvents
  /\ viewProjectionOf = pointerEvents
  /\ cameraCall = NoCameraCall
  /\ pointerCount = 0

\* What the user did while the module waited for the textures.
CanvasUntouched == pointerEvents = InitialPointerEvents
TailUnticked == ~uiSettings.tail
ArmorUnticked == ~uiSettings.armor
CheckCollisionsUnticked == ~uiSettings.checkCollisions

\* "pointermove" while dragging, then callbackUpdatePointerEvents: with
\* shift the angles change by the deltas, otherwise the offsets.
PointerMove(deltaX, deltaY, shiftKey) ==
  /\ pointerCount < MaxPointerEvents
  /\ pointerEvents' =
       IF shiftKey
         THEN [pointerEvents EXCEPT !.rotationAngleX = @ + deltaX,
                                    !.rotationAngleY = @ + deltaY]
         ELSE [pointerEvents EXCEPT !.offsetX = @ + deltaX,
                                    !.offsetY = @ + deltaY]
  /\ pointerCount' = pointerCount + 1
  /\ UNCHANGED <<currentCameraConfigurations, viewProjectionOf, cameraCall>>
  /\ UNCHANGED <<obsVars, renderVars, parseVars, engineVars, frameVars,
                 meshVars, tailVars, spawnVars, gateVars>>

\* "wheel", then callbackUpdatePointerEvents: scale is multiplied or
\* divided by zoomFactor.
Wheel(zoomIn) ==
  /\ pointerCount < MaxPointerEvents
  /\ pointerEvents' =
       [pointerEvents EXCEPT !.scale.zoom = IF zoomIn THEN @ + 1 ELSE @ - 1]
  /\ pointerCount' = pointerCount + 1
  /\ UNCHANGED <<currentCameraConfigurations, viewProjectionOf, cameraCall>>
  /\ UNCHANGED <<obsVars, renderVars, parseVars, engineVars, frameVars,
                 meshVars, tailVars, spawnVars, gateVars>>

NextCamera ==
  \/ \E deltaX \in PointerDeltas, deltaY \in PointerDeltas, shiftKey \in BOOLEAN :
       PointerMove(deltaX, deltaY, shiftKey)
  \/ \E zoomIn \in BOOLEAN : Wheel(zoomIn)
  \/ UiArmor
  \/ Frame(1)

(***************************************************************************)
(* Specifications                                                          *)
(***************************************************************************)
InitSpecObserver ==
  /\ InitObserver
  /\ InitRenderIdle
  /\ InitParseIdle
  /\ InitEngineIdle
  /\ InitFrameIdle
  /\ InitMeshIdle
  /\ InitTailIdle
  /\ InitSpawnIdle
  /\ InitCameraIdle
  /\ InitGateIdle

SpecObserver == InitSpecObserver /\ [][NextObserver]_vars

InitRender ==
  /\ InitRenderSubscribed
  /\ InitParseIdle
  /\ InitEngineIdle
  /\ InitFrameIdle
  /\ InitMeshIdle
  /\ InitTailIdle
  /\ InitSpawnIdle
  /\ InitCameraIdle
  /\ InitGateIdle

SpecRender == InitRender /\ [][NextRender]_vars

InitParse ==
  /\ InitObserver
  /\ InitRenderIdle
  /\ InitParseBuffer
  /\ InitEngineIdle
  /\ InitFrameIdle
  /\ InitMeshIdle
  /\ InitTailIdle
  /\ InitSpawnIdle
  /\ InitCameraIdle
  /\ InitGateIdle

NextParse == ParseResultsBuffer

InitKernel ==
  /\ InitObserver
  /\ InitRenderIdle
  /\ InitParseIdle
  /\ InitEngineIdle
  /\ InitFrameIdle
  /\ InitMeshIdle
  /\ InitTailIdle
  /\ InitSpawnIdle
  /\ InitCameraIdle
  /\ InitGateIdle

SpecKernel == InitKernel /\ [][NextKernel]_vars

\* The frame loop of a page whose canvas and armor box were left alone while
\* it loaded; the slider, the collisions box and the tail box are as the
\* user left them.
InitFrame ==
  /\ InitObserver
  /\ InitFrameLoop
  /\ InitParseIdle
  /\ InitEngineIdle
  /\ InitMeshIdle
  /\ InitTailIdle
  /\ InitSpawnIdle
  /\ InitCameraLoaded
  /\ InitGateIdle
  /\ CanvasUntouched
  /\ ArmorUnticked

SpecFrame == InitFrame /\ [][NextFrame]_vars

\* The frame loop with the frames between two checks counted; the body count
\* stays as it is, and of the settings only the collisions box was touched
\* while the page loaded.
InitGate ==
  /\ InitObserver
  /\ InitFrameLoop
  /\ InitParseIdle
  /\ InitEngineIdle
  /\ InitMeshIdle
  /\ InitTailIdle
  /\ InitSpawnIdle
  /\ InitCameraLoaded
  /\ InitGateCounting
  /\ CanvasUntouched
  /\ ArmorUnticked
  /\ TailUnticked

NextGate ==
  \/ UiCheckCollisions
  \/ UiCommonSetting
  \/ \E t \in Times : Frame(t)
  \/ \E idx \in 0..(MaxFramePlanets - 1) : KernelStep(idx)
  \/ \E idx \in 0..(MaxFramePlanets - 1) : KernelStore(idx)
  \/ SubmissionEnd
  \/ MapAsyncResolved

SpecGate == InitGate /\ [][NextGate]_vars

\* The device makes progress: a dispatched invocation goes on, a submission
\* whose invocations have returned completes, and the map request at the
\* head of the queue resolves. The frames and the user are not obliged to act.
DeviceFairness ==
  /\ WF_vars(\E idx \in 0..(MaxFramePlanets - 1) : KernelStep(idx))
  /\ WF_vars(\E idx \in 0..(MaxFramePlanets - 1) : KernelStore(idx))
  /\ WF_vars(SubmissionEnd)
  /\ WF_vars(MapAsyncResolved)

SpecFrameFair == InitFrame /\ [][NextGate]_vars /\ DeviceFairness

\* The long run starts from a page loaded with no box ticked and the canvas
\* left alone.
InitFrameLong ==
  /\ InitObserver
  /\ InitFrameLoop
  /\ InitParseIdle
  /\ InitEngineIdle
  /\ InitMeshIdle
  /\ InitTailIdle
  /\ InitSpawnIdle
  /\ InitCameraLoaded
  /\ InitGateIdle
  /\ CanvasUntouched
  /\ ArmorUnticked
  /\ TailUnticked
  /\ CheckCollisionsUnticked

\* The frame loop run past frame CHECK_COLLISION_FREQUENCY, with at most
\* MaxLongUiChanges changes of the check box on the way.
NextFrameLong ==
  \/ (uiChanges < MaxLongUiChanges /\ UiCheckCollisions)
  \/ \E t \in Times : FrameLong(t)
  \/ \E idx \in 0..(MaxFramePlanets - 1) : KernelStep(idx)
  \/ \E idx \in 0..(MaxFramePlanets - 1) : KernelStore(idx)
  \/ SubmissionEnd
  \/ MapAsyncResolved

SpecFrameLong == InitFrameLong /\ [][NextFrameLong]_vars

SpecParse == InitParse /\ [][NextParse]_vars

InitMesh ==
  /\ InitObserver
  /\ InitRenderIdle
  /\ InitParseIdle
  /\ InitEngineIdle
  /\ InitFrameIdle
  /\ InitMeshIdle
  /\ InitTailIdle
  /\ InitSpawnIdle
  /\ InitCameraIdle
  /\ InitGateIdle

SpecMesh == InitMesh /\ [][NextMesh]_vars

\* The page loaded with the collisions box unticked and the canvas left
\* alone; the tail box and the armor box are as the user left them.
InitTail ==
  /\ InitObserver
  /\ InitFrameLoop
  /\ InitParseIdle
  /\ InitEngineIdle
  /\ InitMeshIdle
  /\ InitTailIdle
  /\ InitSpawnIdle
  /\ InitCameraLoaded
  /\ InitGateIdle
  /\ CanvasUntouched
  /\ CheckCollisionsUnticked

\* The frame loop with the collision check off: the slider, the tail
\* checkbox, the other settings, the frames and renderTail.
NextTail ==
  \/ \E value \in 1..MaxFramePlanets :
       \E radii \in [1..value -> Radii] : UiPlanets(value, radii)
  \/ UiTail
  \/ UiCommonSetting
  \/ \E value \in 1..MaxFramePlanets :
       \E radii \in [1..value -> Radii] : UiBands(radii)
  \/ \E t \in Times : Frame(t)
  \/ \E recalculateTailBuffer \in BOOLEAN : RenderTail(recalculateTailBuffer)

SpecTail == InitTail /\ [][NextTail]_vars

\* Render is subscribed and the list holds the bodies of the count, on a
\* device whose slots have no padding (create does not depend on it).
InitSpawn ==
  /\ InitRenderSubscribed
  /\ alignment = 64
  /\ InitSpawnLoop
  /\ InitParseIdle
  /\ InitEngineIdle
  /\ InitMeshIdle
  /\ InitTailIdle
  /\ InitSpawnIdle
  /\ InitCameraIdle
  /\ InitGateIdle

SpecSpawn == InitSpawn /\ [][NextSpawn]_vars

\* The slider, the calls of create and the renders between them, from a page
\* of one or two bodies; every body has radius 1, which no draw depends on.
InitSpawnRender ==
  /\ InitSpawn
  /\ planetsCount <= 2

NextSpawnRender ==
  \/ \E planetsToCreate \in 0..MaxSpawn : Spawn(planetsToCreate, 1)
  \/ BandsCreate(1)
  \/ \E n \in 1..MaxPlanets : SliderMoved(n)
  \/ CreateOnPlanetsChange(1)
  \/ \E enableArmor \in BOOLEAN : RenderPlanets(1, enableArmor)

SpecSpawnRender == InitSpawnRender /\ [][NextSpawnRender]_vars

\* The frame loop of a page with one body, the pointer listeners and the
\* armor box; the canvas and the armor box are as the user left them while
\* the page loaded, the other boxes unticked.
InitCamera ==
  /\ InitObserver
  /\ InitFrameLoop
  /\ InitParseIdle
  /\ InitEngineIdle
  /\ InitMeshIdle
  /\ InitTailIdle
  /\ InitSpawnIdle
  /\ InitCameraLoaded
  /\ InitGateIdle
  /\ uiSettings.planets = 1
  /\ TailUnticked
  /\ CheckCollisionsUnticked

SpecCamera == InitCamera /\ [][NextCamera]_vars


(***************************************************************************)
(* Claims about observer.ts                                                *)
(***************************************************************************)
NoDuplicateIds(array) ==
  \A i, j \in 1..Len(array) : array[i].id = array[j].id => i = j

C6_Step ==
  LET before(t) == SubscribersOf(subscriptions, t)
      after(t) == SubscribersOf(subscriptions', t)
      c == lastCall'
  IN  /\ \A t \in Topics : NoDuplicateIds(after(t))
      /\ c.op \in {"subscribe", "unsubscribe"} =>
           /\ \A t \in Topics \ {c.topic} : after(t) = before(t)
           /\ (c.op = "subscribe" /\ FindById(before(c.topic), c.id))
                => after(c.topic) = before(c.topic)
           /\ (c.op = "unsubscribe" /\ ~FindById(before(c.topic), c.id))
                => after(c.topic) = before(c.topic)

\* C6: subscribe and unsubscribe are idempotent per (topic, subscriber id):
\* a topic's subscriber list never holds an id twice; subscribing an id
\* already in the list leaves the list as it was (first callback, same
\* position); unsubscribing an id not in the list leaves it as it was; and
\* neither call changes the list of another topic.
C6_SubscribeUnsubscribeIdempotent == [][C6_Step]_vars

\* A repeated subscribe with another callback was ignored: the id is still in
\* the list with its first callback, ahead of a later subscriber.
C6_Witness ==
  /\ lastCall.op = "subscribe"
  /\ LET array == SubscribersOf(subscriptions, lastCall.topic) IN
     /\ Len(array) >= 2
     /\ array[1].id = lastCall.id
     /\ array[1].callback # lastCall.callback

\* C7: notify(topic, v) has called, when it returns, the callback of every
\* subscriber currently subscribed to the topic exactly once with v, in the
\* order in which they subscribed, and no callback of an id that is not
\* subscribed to that topic (never subscribed to it, or unsubscribed since).
C7_NotifyDeliversInOrder ==
  lastCall.op = "notify" =>
    LET t == lastCall.topic IN
    /\ {delivered[i].id : i \in 1..Len(delivered)} = members[t]
    /\ Len(delivered) = Cardinality(members[t])
    /\ \A i \in 1..Len(delivered) :
         /\ delivered[i].value = lastCall.value
         /\ delivered[i].callback = registered[t][delivered[i].id]
    /\ \A i, j \in 1..Len(delivered) :
         i < j => <<delivered[i].id, delivered[j].id>> \in subBefore[t]

\* A notify reached two subscribers of its topic while another id was
\* subscribed only to the other topic.
C7_Witness ==
  /\ lastCall.op = "notify"
  /\ Len(delivered) >= 2
  /\ \E t \in Topics \ {lastCall.topic} : members[t] \ members[lastCall.topic] # {}

(***************************************************************************)
(* Claims about render.ts                                                  *)
(***************************************************************************)
\* The least multiple of a that is at least size.
Align(size, a) == CHOOSE m \in size..(size + a) : m % a = 0 /\ m - a < size

\* C8: for every body count n and device alignment A, the packed buffer of a
\* renderPlanets call has n * align(64, A) bytes, body i's matrix is written
\* at byte offset i * align(64, A), and body i is drawn with that same
\* dynamic offset (every body of the first n that the list holds is drawn).
C8_PackedBufferLayout ==
  renderCall.called =>
    LET n == renderCall.count
        stride == Align(64, alignment)
    IN  /\ modelMatrixUniformBuffer.size = n * stride
        /\ Len(modelMatrixUniformBuffer.data) * 4 = n * stride
        /\ Len(renderCall.offsets) = n
        /\ \A i \in 0..(n - 1) : renderCall.offsets[i + 1] * 4 = i * stride
        /\ \A i \in 0..(Min(n, Len(planetsBuffers)) - 1) :
             \E d \in 1..Len(renderCall.draws) : renderCall.draws[d].body = i
        /\ \A d \in 1..Len(renderCall.draws) :
             renderCall.draws[d].dynamicOffset = renderCall.draws[d].body * stride

\* Several bodies were packed on a device whose alignment exceeds 64 bytes.
C8_Witness ==
  /\ renderCall.called
  /\ renderCall.count >= 3
  /\ alignment = 128
  /\ Len(renderCall.draws) >= 3

\* C9: after the matrices of n bodies are packed, reading slot i the way
\* getPlanetsCenterPointAndRadius does yields the 16 values written for body
\* i, and so body i's centre, for every i < n: no write of one body's matrix
\* has overwritten a value of another's.
C9_PackReadRoundTrip ==
  renderCall.called =>
    \A i \in 0..(renderCall.count - 1) :
      LET m == ReadModelMatrix(allModelMatrices, i, modelMatrixUniformBufferSize)
          c == transformMat4(PLANET_INITIAL_CENTER, m)
      IN  /\ Len(m) >= 16
          /\ \A k \in 0..15 : At(m, k) = Elem(renderCall.time, i, k)
          /\ <<c[1], c[2], c[3]>> = Centre(renderCall.time, i)

\* Three or more bodies packed with adjacent slots (a stride of 64 bytes),
\* at the time whose centres differ from body to body.
C9_Witness ==
  /\ renderCall.called
  /\ renderCall.count >= 3
  /\ modelMatrixUniformBufferSize = 64
  /\ renderCall.time = 1

\* Element k (from 1) of a freshly packed array of the last render call.
FreshElement(k) ==
  LET per == modelMatrixUniformBufferSize \div 4
      i == (k - 1) \div per
      j == (k - 1) % per
  IN  IF j < 16 THEN Elem(renderCall.time, i, j) ELSE 0

\* C10: while the rendered body count of a list of 5 bodies goes
\* 5 -> 3 -> 5, no renderPlanets
\* call fails, and after each of these renders the packed array has exactly
\* as many slots as bodies, each holding the matrix written in that call and
\* zeros elsewhere: nothing is left over from an earlier, larger pack.
C10_ShrinkThenGrow ==
  (renderCall.called /\ scenarioStage >= 1
     /\ Len(planetsBuffers) >= ScenarioCounts[1]) =>
    /\ renderCall.error = "none"
    /\ ~renderCall.validationError
    /\ renderCall.count = ScenarioCounts[scenarioStage]
    /\ Len(allModelMatrices) = renderCall.count * (modelMatrixUniformBufferSize \div 4)
    /\ \A k \in 1..Len(allModelMatrices) : allModelMatrices[k] = FreshElement(k)

\* The body count was rendered at 5, at 3 and at 5 again, on a device whose
\* slots have padding.
C10_Witness ==
  /\ renderCall.called
  /\ scenarioStage = 3
  /\ renderCall.count = 5
  /\ alignment = 256
  /\ Len(renderCall.draws) = 5

(***************************************************************************)
(* Claims about parseResultsBuffer                                         *)
(***************************************************************************)
\* The records of a list with a # b, in order, as {a, b} objects.
NonSelfPairs(records) ==
  LET kept == SelectSeq(records, LAMBDA r : r[1] # r[2])
  IN  [k \in 1..Len(kept) |-> [a |-> kept[k][1], b |-> kept[k][2]]]

\* C2: for a results buffer of 4 + 8 * m bytes, parseResultsBuffer ignores
\* the 4-byte count header and publishes, in buffer order, exactly the
\* (a, b) records with a # b: no self-pair is published and no record with
\* a # b is left out.
C2_ParsePublishesNonSelfPairs ==
  \A k \in 1..Len(notified) :
    /\ notified[k].collisions = NonSelfPairs(inputRecords.records)
    /\ \A j \in 1..Len(notified[k].collisions) :
         notified[k].collisions[j].a # notified[k].collisions[j].b

\* A buffer with a non-zero header, a non-zero self-pair and a pair with
\* a # b has been parsed and published.
C2_Witness ==
  /\ Len(notified) = 1
  /\ inputRecords.header = 3
  /\ inputRecords.records = << <<256, 256>>, <<16777217, 1>> >>
  /\ Len(arrayBuffer) = 20
  /\ lastCall.op = "notify"
  /\ lastCall.value = << [a |-> 16777217, b |-> 1] >>

(***************************************************************************)
(* Claims about the collision kernel and its buffers                       *)
(***************************************************************************)
\* C1: check_collision(a, b) is true exactly when the squared distance of
\* the centres is at most the square of the sum of the radii, for every pair
\* the kernel tests: spheres that exactly touch collide, and spheres with
\* d * d > (r1 + r2) * (r1 + r2) do not.
C1_OverlapTest ==
  \A t \in tested :
    LET dd == (t.a[1] - t.b[1]) * (t.a[1] - t.b[1])
                + (t.a[2] - t.b[2]) * (t.a[2] - t.b[2])
                + (t.a[3] - t.b[3]) * (t.a[3] - t.b[3])
        rr == (t.a[4] + t.b[4]) * (t.a[4] + t.b[4])
    IN  /\ t.hit <=> (dd <= rr)
        /\ dd = rr => t.hit
        /\ dd > rr => ~t.hit

\* One check has tested a pair that exactly touches (reported), a pair that
\* misses by one (not reported) and a pair that overlaps.
C1_Witness ==
  /\ \E t \in tested : t.a = <<0, 0, 0, 1>> /\ t.b = <<2, 1, 2, 2>> /\ t.hit
  /\ \E t \in tested : t.a = <<0, 0, 0, 1>> /\ t.b = <<3, 1, 0, 2>> /\ ~t.hit
  /\ \E t \in tested : t.a = <<2, 1, 2, 2>> /\ t.b = <<3, 1, 0, 2>> /\ t.hit

\* C3: for body count n the input buffer has 16 * n bytes and the collisions
\* and results buffers 8 * n + 4 bytes each; one check publishes at most n
\* pairs, and no error is raised, also when more than n pairs overlap.
C3_BufferSizesAndCap ==
  /\ closure # NoClosure =>
       /\ gpuBuffers[closure.planetsCenterPointAndRadiusBuffer].size
            = 16 * closure.numberOfPlanets
       /\ gpuBuffers[closure.collisionsBuffer].size = 8 * closure.numberOfPlanets + 4
       /\ gpuBuffers[closure.resultsBuffer].size = 8 * closure.numberOfPlanets + 4
  /\ \A k \in 1..Len(notified) : Len(notified[k].collisions) <= notified[k].by.n
  /\ jsErrors = {}
  /\ deviceErrors = {}

\* A check of 4 bodies in which more than 4 pairs overlapped has published
\* its list.
C3_Witness ==
  /\ Len(notified) >= 1
  /\ closure.numberOfPlanets = 4
  /\ notified[Len(notified)].by.id = checksStarted
  /\ Cardinality({t \in tested : t.hit /\ t.check = checksStarted}) > 4
  /\ Len(notified[Len(notified)].collisions) >= 3

(***************************************************************************)
(* Claims about a body-count change during a pending readback              *)
(***************************************************************************)
\* C4: a check whose collisions and results buffers were replaced by
\* recreateComputeShaderBuffers while its mapAsync was pending still
\* completes: its continuation raises no error when it reads the mapped
\* range and unmaps.
C4_PendingCheckSurvivesRecreate ==
  \A e \in jsErrors : ~(e.at = "getMappedRange" /\ e.recreated)

\* Every dispatch in the queue runs on buffers created for the body count it
\* was called with.
DispatchesAreArmed ==
  \A k \in 1..Len(deviceQueue) :
    deviceQueue[k].kind = "submit" =>
      /\ gpuBuffers[deviceQueue[k].input].size = 16 * deviceQueue[k].tag.n
      /\ gpuBuffers[deviceQueue[k].collisions].size = 8 * deviceQueue[k].tag.n + 4
      /\ gpuBuffers[deviceQueue[k].dst].size = 8 * deviceQueue[k].tag.n + 4

\* No pair is published after the body count changed since the dispatch
\* that detected it.
StaleResultsNotPublished ==
  \A k \in 1..Len(notified) :
    notified[k].collisions # <<>> => notified[k].from.epoch = notified[k].epoch

\* The list a check publishes was filled by its own dispatch.
ResultsNotMerged ==
  \A k \in 1..Len(notified) : notified[k].from.id = notified[k].by.id

\* C5: when the body count changes while a readback is pending, the next
\* check dispatches on buffers re-created for the new count, and the results
\* of the dispatch that was in flight are neither published on "collisions"
\* nor merged into the results of a later check.
C5_StaleResultsDiscarded ==
  /\ DispatchesAreArmed
  /\ StaleResultsNotPublished
  /\ ResultsNotMerged


(***************************************************************************)
(* Claims about createSphereMesh                                           *)
(***************************************************************************)
\* C11: for latBands >= 2 and longBands >= 2, createSphereMesh returns
\* exactly latBands * longBands * 6 indices, each of them smaller than
\* (latBands + 1) * (longBands + 1), the number of vertices it generated.
C11_SphereIndexCountAndRange ==
  (meshCall.called /\ meshCall.latBands >= 2 /\ meshCall.longBands >= 2) =>
    LET vertexCount == (meshCall.latBands + 1) * (meshCall.longBands + 1)
        indices == meshCall.result.indices
    IN  /\ Len(indices) = meshCall.latBands * meshCall.longBands * 6
        /\ Len(meshCall.result.vertices) = vertexCount
        /\ meshCall.result.positionAndTexCoordsLength = 5 * vertexCount
        /\ \A k \in 1..Len(indices) : indices[k] >= 0 /\ indices[k] < vertexCount

\* A 3 x 2 mesh whose index list reaches the last vertex.
C11_Witness ==
  /\ meshCall.called
  /\ meshCall.latBands = 3
  /\ meshCall.longBands = 2
  /\ Len(meshCall.result.indices) = 36
  /\ \E k \in 1..Len(meshCall.result.indices) : meshCall.result.indices[k] = 11

\* C12: a call of createSphereMesh with latBands <= 0 or longBands <= 0
\* fails with an error and returns no mesh.
C12_InvalidBandsRejected ==
  (meshCall.called /\ (meshCall.latBands <= 0 \/ meshCall.longBands <= 0)) =>
    (meshCall.result.error # "none" /\ ~meshCall.result.returned)

(***************************************************************************)
(* Claims about the tail                                                   *)
(***************************************************************************)
\* C13: after the tail is toggled off the history list is empty and the
\* per-body sample counter is 0; after it is toggled on again and the first
\* sample is taken, the per-body sample counter is 1.
C13_ToggleResetsThenFirstSample ==
  tailLog.cause = "tail off" =>
    IF ~uiSettings.tail
      THEN Len(tailCenterPositionsComplete) = 0 /\ coordinatesPerPlanet = 0
      ELSE /\ tailLog.samples >= 1
           /\ tailLog.samples = 1 => coordinatesPerPlanet = 1

\* The tail, ticked while the page loaded, was toggled off and on again, and
\* the first sample since has been taken.
C13_Witness ==
  /\ uiSettings.tail
  /\ tailLog.cause = "tail off"
  /\ tailLog.samples = 1
  /\ coordinatesPerPlanet = 1
  /\ Len(tailCenterPositionsComplete) = 1
  /\ uiChanges = 2

\* C14: renderTail draws the first coordinatesPerPlanet * numberOfPlanets
\* vertices of the rebuilt list, fewer only when the list is shorter, and
\* between two resets the number of vertices drawn never decreases from one
\* draw to the next.
C14_TailDrawsPrefixAndGrows ==
  /\ tailDraw.drawn =>
       /\ tailDraw.vertexCount <= tailDraw.coordinatesPerPlanet * tailDraw.numberOfPlanets
       /\ tailDraw.vertexCount <= tailDraw.listLength
       /\ \/ tailDraw.vertexCount =
               tailDraw.coordinatesPerPlanet * tailDraw.numberOfPlanets
          \/ tailDraw.vertexCount = tailDraw.listLength
  /\ \A k \in 1..(Len(tailLog.draws) - 1) : tailLog.draws[k] <= tailLog.draws[k + 1]

\* Two draws since the last reset, the second longer than the first and
\* shorter than coordinatesPerPlanet * numberOfPlanets.
C14_Witness ==
  /\ uiSettings.tail
  /\ Len(tailLog.draws) >= 2
  /\ tailLog.draws[1] < tailLog.draws[2]
  /\ tailDraw.vertexCount = tailLog.draws[Len(tailLog.draws)]
  /\ tailDraw.vertexCount < tailDraw.coordinatesPerPlanet * tailDraw.numberOfPlanets
  /\ tailDraw.coordinatesPerPlanet >= 2

(***************************************************************************)
(* Claims about create                                                     *)
(***************************************************************************)
\* What holds right after a call of create with addNew, planetsToCreate = N
\* and currentNumberOfPlanets = c.
SpawnAppendedAndPublished ==
  (createCall.called /\ createCall.addNew /\ ~createCall.updateLatOrLongBands) =>
    LET N == createCall.planetsToCreate
        c == createCall.currentNumberOfPlanets
    IN  /\ Len(createCall.published) >= 1
        /\ \A k \in 1..Len(createCall.published) : createCall.published[k] = c + N
        /\ \A k \in 1..Len(delivered) : delivered[k].value = c + N
        /\ planetsCount = c + N
        /\ uiSettings.planets = c + N
        /\ Len(planetsBuffers) = createCall.before + N

\* The list holds the bodies of the count the spawner passed and the new ones.
SpawnedOntoWholeList ==
  (createCall.called /\ createCall.addNew /\ ~createCall.updateLatOrLongBands) =>
    Len(planetsBuffers) >= createCall.currentNumberOfPlanets + createCall.planetsToCreate

UnorderedPairs(n) == {p \in (0..(n - 1)) \X (0..(n - 1)) : p[1] < p[2]}

\* The pairs of a body list whose spheres overlap or touch.
OverlappingPairs(points) ==
  {p \in UnorderedPairs(Len(points)) :
     LET a == points[p[1] + 1]
         b == points[p[2] + 1]
     IN  (a[1] - b[1]) * (a[1] - b[1]) + (a[2] - b[2]) * (a[2] - b[2])
           + (a[3] - b[3]) * (a[3] - b[3]) <= (a[4] + b[4]) * (a[4] + b[4])}

\* C16: one collision check of n >= 1 bodies dispatches ceil(n / 64)
\* workgroups of 64 invocations; invocation i tests the pairs (i, j) with
\* j > i and invocations with index >= n test nothing, so that every
\* unordered pair {i, j} with 0 <= i < j < n is tested exactly once; and when
\* at most n pairs overlap, the published list is exactly the set of
\* overlapping pairs, each reported once with a < b.
C16_AllPairsTestedOnce ==
  /\ \A n \in {1, 63, 64, 65, 128, 129} :
       /\ (CeilDiv(n, WORKGROUP_SIZE) - 1) * 64 < n
       /\ n <= CeilDiv(n, WORKGROUP_SIZE) * 64
       /\ ActiveInvocations(CeilDiv(n, WORKGROUP_SIZE), n) = 0..(n - 1)
  /\ \A k \in 1..Len(deviceQueue) :
       deviceQueue[k].kind = "submit" =>
         /\ deviceQueue[k].tag.n >= 1
         /\ deviceQueue[k].groups = (deviceQueue[k].tag.n + 63) \div 64
         /\ DOMAIN deviceQueue[k].loopI = 0..(deviceQueue[k].tag.n - 1)
  /\ \A t \in tested :
       /\ t.idx < t.i
       /\ \A u \in tested : (u.idx = t.idx /\ u.i = t.i) => u = t
  /\ \A k \in 1..Len(notified) :
       LET list == notified[k].collisions
           overlapping == OverlappingPairs(notified[k].by.points)
       IN  /\ notified[k].by.id = checksStarted =>
                {<<t.idx, t.i>> : t \in tested} = UnorderedPairs(notified[k].by.n)
           /\ Cardinality(overlapping) <= notified[k].by.n =>
                /\ {<<list[j].a, list[j].b>> : j \in 1..Len(list)} = overlapping
                /\ Len(list) = Cardinality(overlapping)
                /\ \A j \in 1..Len(list) : list[j].a < list[j].b

\* A check of 4 bodies has tested its 6 pairs, of which some but not more
\* than 4 overlap, and has published them.
C16_Witness ==
  /\ Len(notified) = 1
  /\ notified[1].by.n = 4
  /\ Cardinality(tested) = 6
  /\ Cardinality(OverlappingPairs(notified[1].by.points)) \in 2..4
  /\ Len(notified[1].collisions) = Cardinality(OverlappingPairs(notified[1].by.points))

\* The collisions detected so far by the latest check.
Detected == {t \in tested : t.hit /\ t.check = checksStarted}

\* The counter of the latest check: in the collisions buffer while its
\* dispatch runs, in the results buffer once the copy is made.
CounterCountsDetected ==
  /\ (/\ deviceQueue # <<>>
      /\ Head(deviceQueue).kind = "submit"
      /\ Head(deviceQueue).tag.id = checksStarted) =>
       getUint32(gpuBuffers[Head(deviceQueue).collisions].bytes, 0)
         = Cardinality(Detected)
  /\ \A b \in 1..Len(gpuBuffers) :
       (gpuBuffers[b].usage = "results" /\ gpuBuffers[b].filledBy.id = checksStarted
          /\ checksStarted >= 1) =>
         getUint32(gpuBuffers[b].bytes, 0) = Cardinality(Detected)

\* Every detected collision got its own prior counter value.
PriorValuesDistinct ==
  \A t \in Detected : \A u \in Detected : t.index = u.index => t = u

\* The records of collisions.data that the store of a detected pair wrote a
\* word of.
RecordsWritten(t) ==
  {(o - 4) \div structSize :
     o \in {x \in {t.target, t.target + 4} : x >= 4 /\ x < 4 + t.capacity * structSize}}

\* C18 as stated: under any interleaving of the invocations every detected
\* collision gets a distinct prior counter value, no two detected pairs are
\* written to the same output record, and after the pass the counter equals
\* the number of collisions detected in that pass.
C18_NoTwoPairsInOneRecord ==
  /\ PriorValuesDistinct
  /\ \A t \in Detected : \A u \in Detected :
       (RecordsWritten(t) \cap RecordsWritten(u) # {}) => t = u
  /\ CounterCountsDetected

\* Every prior value the counter has handed out in the latest pass is below
\* the number of records of collisions.data.
AllInBounds == \A t \in Detected : t.index < t.capacity

\* Record index of a collisions or results buffer holds the pair of t.
RecordHolds(bytes, t) ==
  /\ getUint32(bytes, 4 + t.index * structSize) = t.idx
  /\ getUint32(bytes, 4 + t.index * structSize + 4) = t.i

\* Every detected pair is read back from the record of its prior value: in
\* the collisions buffer as soon as its invocation has made the store and
\* gone on with its loop, and in the results buffer once the copy is made.
RecordsHoldPairs ==
  /\ (/\ deviceQueue # <<>>
      /\ Head(deviceQueue).kind = "submit"
      /\ Head(deviceQueue).tag.id = checksStarted) =>
       \A t \in Detected :
         Head(deviceQueue).loopI[t.idx] > t.i =>
           RecordHolds(gpuBuffers[Head(deviceQueue).collisions].bytes, t)
  /\ \A b \in 1..Len(gpuBuffers) :
       (/\ gpuBuffers[b].usage = "results"
        /\ gpuBuffers[b].filledBy.id = checksStarted
        /\ checksStarted >= 1) =>
         \A t \in Detected : RecordHolds(gpuBuffers[b].bytes, t)

\* C18, amended: under any interleaving of the invocations, as long as every
\* prior value handed out in the pass is below the number of records n (so
\* throughout a pass that detects at most n collisions), every detected
\* collision has a distinct prior counter value, every detected pair is
\* written to the record of its prior value and to no other, no two detected
\* pairs are written to the same record, and the counter equals the number
\* of collisions detected, during the pass and in the copy made after it.
C18_DistinctPriorValuesAndCount ==
  AllInBounds =>
    /\ PriorValuesDistinct
    /\ \A t \in Detected :
         /\ t.target = 4 + t.index * structSize
         /\ RecordsWritten(t) = {t.index}
    /\ \A t \in Detected : \A u \in Detected :
         (RecordsWritten(t) \cap RecordsWritten(u) # {}) => t = u
    /\ RecordsHoldPairs
    /\ CounterCountsDetected

\* A pass over 4 bodies is complete in which three invocations detected
\* collisions, 4 in all, as many as the array has records: the copied
\* counter is 4 and the last record holds the pair with prior value 3.
C18_Witness ==
  /\ checksStarted = 1
  /\ Cardinality(Detected) = 4
  /\ AllInBounds
  /\ \A t \in Detected : t.capacity = 4
  /\ Cardinality({t.idx : t \in Detected}) = 3
  /\ \E b \in 1..Len(gpuBuffers) :
       /\ gpuBuffers[b].usage = "results"
       /\ gpuBuffers[b].filledBy.id = 1
       /\ getUint32(gpuBuffers[b].bytes, 0) = 4
       /\ \E t \in Detected :
            /\ t.index = 3
            /\ getUint32(gpuBuffers[b].bytes, 4 + 3 * structSize) = t.idx
            /\ getUint32(gpuBuffers[b].bytes, 4 + 3 * structSize + 4) = t.i

\* The dispatch at the head of the queue has not run any iteration yet.
DispatchAtStart ==
  /\ deviceQueue # <<>>
  /\ Head(deviceQueue).kind = "submit"
  /\ \A idx \in DOMAIN Head(deviceQueue).loopI :
       /\ Head(deviceQueue).loopI[idx] = idx + 1
       /\ Head(deviceQueue).store[idx] = NoStore
  /\ \A t \in tested : t.check # Head(deviceQueue).tag.id

\* The step in which a submission leaves the queue: every invocation has
\* returned, the results buffer receives the bytes the dispatch left in the
\* collisions buffer, and the collisions buffer is zero afterwards.
SubmissionOrdered ==
  (/\ deviceQueue # <<>>
   /\ Head(deviceQueue).kind = "submit"
   /\ deviceQueue' = Tail(deviceQueue)) =>
    LET head == Head(deviceQueue)
    IN  /\ \A idx \in DOMAIN head.loopI : head.loopI[idx] >= head.tag.n
        /\ SubSeq(gpuBuffers'[head.dst].bytes, 1, head.size)
             = SubSeq(gpuBuffers[head.collisions].bytes, 1, head.size)
        /\ \A k \in 1..Len(gpuBuffers'[head.collisions].bytes) :
             gpuBuffers'[head.collisions].bytes[k] = 0

\* C17: within the submission of one check the device runs the dispatch,
\* then the copy of the collisions buffer into the results buffer, then the
\* clear of the collisions buffer; so the counter and all records are zero
\* when a dispatch starts, and the pairs a check publishes are pairs its own
\* dispatch detected, never pairs only an earlier check detected.
C17_CopyThenClearInOneSubmission ==
  /\ [][SubmissionOrdered]_vars
  /\ [](DispatchAtStart =>
          \A k \in 1..Len(gpuBuffers[Head(deviceQueue).collisions].bytes) :
            gpuBuffers[Head(deviceQueue).collisions].bytes[k] = 0)
  /\ [](\A k \in 1..Len(notified) :
          notified[k].by.id = checksStarted =>
            \A j \in 1..Len(notified[k].collisions) :
              \E t \in Detected : /\ t.idx = notified[k].collisions[j].a
                                  /\ t.i = notified[k].collisions[j].b)

\* The check of frame CHECK_COLLISION_FREQUENCY has run on the buffers of
\* the check of frame 0, which had detected a pair, and has published one
\* pair from its own dispatch.
C17_Witness ==
  /\ Len(notified) = 2
  /\ recreates = 1
  /\ Len(notified[1].collisions) = 1
  /\ notified[2].by.id = 2
  /\ notified[2].from.id = 2
  /\ Len(notified[2].collisions) = 1
  /\ currentFrame = CHECK_COLLISION_FREQUENCY + 1

\* C19: in the frame loop checkCollisionViaComputeShader is never called
\* before recreateComputeShaderBuffers has allocated the buffers, and at
\* every call the three buffers are sized for the body count passed to it,
\* whatever the frames, the toggles of the check box and the changes of the
\* body count before it.
C19_DispatchOnlyWhenArmed ==
  /\ [][checksStarted' # checksStarted =>
          /\ closure' # NoClosure
          /\ closure'.numberOfPlanets = uiSettings.planets
          /\ gpuBuffers'[closure'.planetsCenterPointAndRadiusBuffer].size
               = InputBufferSize(uiSettings.planets)
          /\ gpuBuffers'[closure'.collisionsBuffer].size
               = CollisionsBufferSize(uiSettings.planets)
          /\ gpuBuffers'[closure'.resultsBuffer].size
               = CollisionsBufferSize(uiSettings.planets)]_vars
  /\ [](\A e \in jsErrors : ~(e.error = "TypeError" /\ e.at = "setBindGroup"))

\* A second check was dispatched after the body count changed, on buffers
\* re-created for the new count.
C19_Witness ==
  /\ checksStarted = 2
  /\ recreates = 2
  /\ countEpoch >= 1
  /\ closure.numberOfPlanets = uiSettings.planets
  /\ \E k \in 1..Len(deviceQueue) :
       /\ deviceQueue[k].kind = "submit"
       /\ deviceQueue[k].tag.id = 2
       /\ deviceQueue[k].tag.epoch = countEpoch
       /\ deviceQueue[k].tag.n = uiSettings.planets

\* C20: every check uploads the candidate data before it dispatches: the
\* centres and radii a dispatch tests are those computed from the packed
\* transforms in the frame that invoked the check, not those of the earlier
\* frame in which the buffers were created.
C20_DispatchTestsCurrentPoints ==
  \A k \in 1..Len(deviceQueue) :
    deviceQueue[k].kind = "submit" =>
      gpuBuffers[deviceQueue[k].input].points = deviceQueue[k].tag.points

(***************************************************************************)
(* Claims about the camera                                                 *)
(***************************************************************************)
\* C30: hasCameraChangedPositions(cur, next) is true exactly when cur and
\* next differ in rotationAngleX, rotationAngleY, offsetX, offsetY or scale;
\* so after the camera step of a frame the view-projection matrix is the one
\* of the current pointer values, also after a pan that changed offsetY only.
C30_EveryCameraChangeDetected ==
  /\ cameraCall.called =>
       (cameraCall.changed <=>
          \/ cameraCall.curr.rotationAngleX # cameraCall.new.rotationAngleX
          \/ cameraCall.curr.rotationAngleY # cameraCall.new.rotationAngleY
          \/ cameraCall.curr.offsetX # cameraCall.new.offsetX
          \/ cameraCall.curr.offsetY # cameraCall.new.offsetY
          \/ cameraCall.curr.scale # cameraCall.new.scale)
  /\ (cameraCall.called /\ cameraCall.new = pointerEvents) =>
       viewProjectionOf = pointerEvents

(***************************************************************************)
(* Claims about the frame loop                                             *)
(***************************************************************************)
\* C21: between two consecutive calls of checkCollisionViaComputeShader at
\* least CHECK_COLLISION_FREQUENCY frames are rendered, whatever the frames
\* and the UI changes (each of which resets the frame counter) in between.
C21_ChecksGatedByFrameInterval ==
  lastCheckGap = 0 - 1 \/ lastCheckGap >= CHECK_COLLISION_FREQUENCY

(***************************************************************************)
(* Claims about the trail history                                          *)
(***************************************************************************)
\* C22: after k calls of updateVariableTailBuffers with the same body count
\* n since the last reset, the rebuilt list holds k * n positions grouped
\* by body: positions [i * k, (i + 1) * k) are the samples of body i in the
\* order in which they were taken, for every i < n.
C22_TrailGroupedByBody ==
  LET calls == tailLog.calls
      k == Len(calls)
  IN  (k >= 1 /\ \A j \in 1..k : Len(calls[j]) = Len(calls[1])) =>
        LET n == Len(calls[1])
        IN  /\ Len(tailCenterPositions) = k * n
            /\ \A i \in 0..(n - 1) : \A j \in 1..k :
                 tailCenterPositions[i * k + j]
                   = <<calls[j][i + 1].x, calls[j][i + 1].y, calls[j][i + 1].z>>

\* Two samples of 2 bodies were taken since the last reset, the bodies
\* having moved in between, and the list of 4 positions was rebuilt.
C22_Witness ==
  /\ Len(tailLog.calls) = 2
  /\ Len(tailLog.calls[1]) = 2
  /\ Len(tailLog.calls[2]) = 2
  /\ tailLog.calls[1] # tailLog.calls[2]
  /\ Len(tailCenterPositions) = 4
  /\ coordinatesPerPlanet = 2

\* C23: whenever the body count or the tessellation resolution (latBands or
\* longBands) changes while the tail is on, the history and the per-body
\* counter are reset before the next tail draw, so that no draw shows
\* samples taken before the change.
C23_ResetBeforeNextDraw ==
  ~tailLog.mixed

\* C28: whenever centres are derived for n bodies, the packed matrix array
\* read holds at least n slots and the body list at least n records, also
\* when the derivation runs in the UI callback right after the body count
\* has grown.
C28_DerivationWithinPackedArray ==
  \A k \in 1..Len(tailLog.derived) :
    /\ tailLog.derived[k].slots >= tailLog.derived[k].n
    /\ tailLog.derived[k].records >= tailLog.derived[k].n

\* C29: the number of stored samples is coordinatesPerPlanet times the
\* current body count, with exactly coordinatesPerPlanet samples of every
\* body index below the body count.
C29_HistoryMatchesCounter ==
  /\ Len(tailCenterPositionsComplete) = coordinatesPerPlanet * uiSettings.planets
  /\ \A i \in 0..(uiSettings.planets - 1) :
       Cardinality({k \in 1..Len(tailCenterPositionsComplete) :
                      tailCenterPositionsComplete[k].planetIdx = i})
         = coordinatesPerPlanet

(***************************************************************************)
(* Claims about rendering the bodies that create has made                  *)
(***************************************************************************)
\* What holds of a renderPlanets call that found a record at every index
\* below its count n: the packed buffer of the call has n slots, one
\* indexed draw is issued per body, and one more per body with the armor on.
\* (The call's record holds the slots packed in the call; its error is a
\* TypeError when the list has no record at an index below n, and its
\* validation error is a draw bound outside the packed buffer.)
RenderedWithinWhatExists ==
  renderCall.called =>
    LET n == renderCall.count
        draws == renderCall.draws
        topology == SelectSeq(draws, LAMBDA d : d.pipeline = "topology")
        armor == SelectSeq(draws, LAMBDA d : d.pipeline = "armor")
    IN  /\ renderCall.error = "none"
        /\ ~renderCall.validationError
        /\ Len(renderCall.offsets) = n
        /\ \A i \in 1..n : renderCall.offsets[i] * BYTES_PER_ELEMENT =
                               (i - 1) * modelMatrixUniformBufferSize
        /\ Len(topology) = n
        /\ \A i \in 0..(n - 1) : topology[i + 1].body = i
        /\ Len(armor) = IF renderCall.enableArmor THEN n ELSE 0
        /\ \A i \in 1..Len(armor) : armor[i].body = i - 1
        /\ Len(draws) = Len(topology) + Len(armor)

ReadbacksInFlight == {i \in 1..Len(deviceQueue) : deviceQueue[i].kind = "map"}

\* No check found its results buffer mapped or with a map pending: no submit
\* was refused for copying into such a buffer and no mapAsync was rejected.
ResultsBufferFreeAtEveryCheck ==
  /\ "submit" \notin deviceErrors
  /\ \A e \in jsErrors : e.at # "mapAsync"

\* C25: the results buffer is never the destination of a copy and never
\* asked to map again while it is mapped or has a map pending: a check is
\* submitted only after the readback of the previous one was parsed and
\* unmapped, so at most one readback is in flight at any time.
C25_AtMostOneReadbackInFlight ==
  /\ Cardinality(ReadbacksInFlight) <= 1
  /\ ResultsBufferFreeAtEveryCheck

(***************************************************************************)
(* Claims about disabling the collision check                              *)
(***************************************************************************)
\* No step taken with the check box off starts a check.
NoDispatchWhileDisabled ==
  [][~uiSettings.checkCollisions => checksStarted' = checksStarted]_vars

\* No step taken with the check box off publishes on "collisions".
NoPublicationWhileDisabled ==
  [][~uiSettings.checkCollisions => notified' = notified]_vars

\* C27: while collision checking is disabled no compute pass is dispatched
\* (no check is started) and nothing is published on "collisions", also
\* when the user disabled it while a readback was pending.
C27_NothingWhileDisabled ==
  /\ NoDispatchWhileDisabled
  /\ NoPublicationWhileDisabled

(***************************************************************************)
(* Claims about the completion of a check                                  *)
(***************************************************************************)
\* The publications made by the continuation of check k.
PublicationsOf(k) == {i \in 1..Len(notified) : notified[i].by.id = k}

\* Check k has published once and no buffer is left mapped.
CompletedOnce(k) ==
  /\ Cardinality(PublicationsOf(k)) = 1
  /\ \A b \in 1..Len(gpuBuffers) : gpuBuffers[b].mapState # "mapped"

\* C26: every call of checkCollisionViaComputeShader eventually publishes
\* exactly one notification on "collisions" and afterwards unmaps the
\* results buffer, the device resolving every map request.
C26_EveryCheckPublishesOnce ==
  \A k \in 1..MaxUiChanges : (checksStarted >= k) ~> CompletedOnce(k)

=============================================================================
